---- MODULE Spec2Model ----
(***************************************************************************)
(* potatogram: a social client over a policy-gated relational datastore.   *)
(* The model covers the datastore tables and row-level policies of         *)
(* supabase/migrations and the client components that read and write them: *)
(*   - messaging: NewConversationDialog, ChatArea, ConversationList        *)
(*   - ephemeral content: StoriesBar, NotesBar, CreateStoryDialog,         *)
(*     StoryViewer, the follow and close-friend toggles                    *)
(*   - session: AuthProvider (session, profile, admin role, impersonation) *)
(*     and the admin page with its badge dialog                            *)
(*   - posts: the like and save toggles of PostCard                        *)
(* A client (browser) holds a session user and an effective profile; the   *)
(* policies see the session (get_my_profile_id), the components see the    *)
(* profile.  Backend calls are asynchronous: a mutation is split at the    *)
(* awaits where other clients can interleave, and every write may be       *)
(* refused by the network or the backend (ok = FALSE).                     *)
(* The specifications share the variables:                                 *)
(*   Spec          messaging, every client signed in as its own actor      *)
(*   SpecEph       who is served which story and note, and until when      *)
(*   SpecView      viewing and liking an existing story and note           *)
(*   SpecAuth      one browser: sign-in, sign-out, late answers, routes,   *)
(*                 impersonation; SpecAuthLive adds the redirect effect's  *)
(*                 fairness                                                *)
(*   SpecRead      one browser from sign-in to the read receipts           *)
(*   SpecReceipts  the writers of public.messages on the messages page     *)
(*   SpecBadges    the badge dialog of the admin page                      *)
(*   SpecPosts     the like and save toggles of a post card                *)
(*   SpecStories   the grouping and order of StoriesBar over every answer  *)
(*                 of the stories query                                    *)
(*   SpecPlayback  StoryViewer: the progress interval and the next and     *)
(*                 previous clicks                                         *)
(*   SpecUpload    the story dialog with the file upload; SpecUploadLive   *)
(*                 adds that every request is answered                     *)
(***************************************************************************)
EXTENDS Integers, Sequences, FiniteSets, TLC

\* ------------------------------------------------------------------ bounds
MaxConv == 2
MaxMsgs == 1
MaxPosts == 1

\* ------------------------------------------------------------- the actors
Actors == {"A", "B"}
None == "none"

\* ------------------------------------------------------------------ text
\* A string is a sequence of characters; " " is white space.  The inputs
\* typed into a text field: empty, white space only, and text with white
\* space around it.
Strings == {<<>>, <<" ">>, <<" ", "x", " ">>}

RECURSIVE TrimStart(_)
TrimStart(s) == IF s = <<>> THEN s
                ELSE IF Head(s) = " " THEN TrimStart(Tail(s)) ELSE s

RECURSIVE TrimEnd(_)
TrimEnd(s) == IF s = <<>> THEN s
              ELSE IF s[Len(s)] = " " THEN TrimEnd(SubSeq(s, 1, Len(s) - 1)) ELSE s

\* String.prototype.trim
Trim(s) == TrimEnd(TrimStart(s))

VARIABLES
  \* ---- datastore: messaging tables
  conversations,              \* rows of public.conversations: [id, updated_at]
  conversation_participants,  \* rows: [conversation_id, profile_id]
  messages,                   \* rows: [id, conversation_id, sender_id, content, is_read]
  \* ---- NewConversationDialog of each client
  createConversationMutation, \* [pc, other, newConv]: position of the mutationFn
  overlapped,                 \* history: some find-or-create started while another
                              \* one for the same pair was in flight
  \* ---- MessagesPage / ChatArea of each client
  conversationId,             \* the conversation open in ChatArea, 0 when none
  message,                    \* the compose input
  sendMessageMutation,        \* [status, message, conversationId] of the last send
  blankSubmitted,             \* history: the compose form was submitted with an
                              \* empty or white-space input
  \* ---- ConversationList of each client
  conversationsData,          \* [polled, rows]: the data of the conversations query
  \* ---- datastore: profiles, relations, ephemeral content
  now,                        \* the clock, in hours
  is_private,                 \* profiles.is_private of each actor
  follows,                    \* rows: [follower_id, following_id]
  close_friends,              \* rows: [user_id, friend_id]
  stories,                    \* rows: [id, profile_id, is_close_friends_only,
                              \*        created_at, expires_at]
  notes,                      \* rows: [id, profile_id, created_at, expires_at]
  notifications,              \* rows: [profile_id, type, actor_id, content_type,
                              \*        content_id], told apart by their content
  story_views,                \* rows: [story_id, viewer_id]
  story_likes,                \* rows: [story_id, profile_id]
  note_likes,                 \* rows: [note_id, profile_id]
  \* ---- StoriesBar / NotesBar queries
  lastQuery,                  \* the answer of the listing query issued in this
                              \* state, NoQuery once the datastore or the clock moved
  \* ---- StoryViewer of each client
  storyViewer,                \* [story, isLiked]: story = 0 when the viewer is closed
  markSeen,                   \* [calls, error]: mark-viewed requests the backend
                              \* answered, and whether the last answer was an error
  \* ---- NotesBar of each client
  notesData,                  \* the data of the notes query: [id, profile_id, is_liked]
  selectedNote,               \* the note of the detail dialog, NoNote when closed
  likeRun,                    \* history: the like toggles completed one after the
                              \* other on a story / a note that started not liked
  \* ---- AuthProvider of each client (browser)
  user,                       \* the signed-in user of the session, None when signed out
  profile,                    \* the effective profile every component reads
  realProfile,                \* the profile last fetched for a signed-in user
  impersonatedProfile,        \* the profile an admin is viewing as, None when not
  isLoading,                  \* the stored session has not been read yet
  isAdmin,                    \* the answer of the last admin-role check
  pathname,                   \* the route of the browser
  pending,                    \* requests in flight: [kind, userId]
  redirected,                 \* history: the last route change was made by the
                              \* effect that sends a signed-out client to /auth
  \* ---- the messages query of ChatArea, per client
  messagesData,               \* the rows last fetched, as they were then
  markedRead,                 \* history: [id, by]: the read flag of message id
                              \* was set by a request of the client of user `by`
  \* ---- datastore: the badge columns of public.profiles
  is_verified,                \* profiles.is_verified of each actor
  verified_type,              \* profiles.verified_type of each actor, Null when NULL
  \* ---- AdminPage of each client
  adminUsers,                 \* the admin-users query data: [loaded, verified_type
                              \* of each profile as last fetched]
  badgeDialogUser,            \* the profile the badge dialog is open for, or None
  badgeType,                  \* the value of the badge select
  \* ---- datastore: posts
  posts,                      \* rows of public.posts: [id, profile_id]
  post_likes,                 \* rows: [post_id, profile_id]
  post_saves,                 \* rows: [post_id, profile_id]
  \* ---- PostCard of each client, for the post it shows
  localIsLiked,
  localLikesCount,
  localIsSaved,
  likeMutation,               \* [status, wasLiked, wasCount, refused]: the last
                              \* like request, the values the card showed when it
                              \* was clicked, whether the backend refused it
  saveMutation,               \* [status, wasSaved, refused]
  \* history of the conversation creations
  raceIds,                    \* ids of the conversation rows inserted while another
                              \* creation for the same pair had its row inserted
                              \* and its participants not yet
  \* the toaster of the messages page
  toast,                      \* [n, title]: the last toast() of NewConversationDialog,
                              \* ChatArea or the upload dialog; n flips with every call
  \* the realtime subscription effect of ChatArea
  channels,                   \* the conversations the client has a live channel for
  subscribedFor,              \* the conversationId of the last run of the effect,
                              \* 0 before the first and after the unmount
  \* StoriesBar
  storiesBar,                 \* [data, viewedIds, groupedStories, fetched]: the rows
                              \* the stories query answers with, the ids of the
                              \* viewer's story_views rows, the last result of queryFn
  \* CreateStoryDialog with the file upload
  createStoryDialog,          \* [open, selectedFile, isCloseFriendsOnly, isUploading,
                              \* status]: the dialog state of each client and the
                              \* position of createStoryMutation
  \* StoryViewer as StoriesBar mounts it
  viewingStories              \* [stories, currentIndex, progress, rendered, timer]:
                              \* stories.length of the opened group (0 = null),
                              \* the two states of StoryViewer, the currentIndex
                              \* of the last render and the one the running
                              \* interval closed over

msgVars == <<conversations, conversation_participants, messages,
             createConversationMutation, overlapped, conversationId, message,
             sendMessageMutation, blankSubmitted, conversationsData>>

ephVars == <<now, is_private, follows, close_friends, stories, notes,
             notifications, lastQuery>>

viewVars == <<story_views, story_likes, note_likes, storyViewer, markSeen,
              notesData, selectedNote, likeRun>>

authVars == <<user, profile, realProfile, impersonatedProfile, isLoading,
              isAdmin, pathname, pending, redirected>>

readVars == <<messagesData, markedRead>>

badgeVars == <<is_verified, verified_type, adminUsers, badgeDialogUser, badgeType>>

postVars == <<posts, post_likes, post_saves, localIsLiked, localLikesCount,
              localIsSaved, likeMutation, saveMutation>>

raceVars == <<raceIds>>

toastVars == <<toast>>

rtVars == <<channels, subscribedFor>>

barVars == <<storiesBar>>

dialogVars == <<createStoryDialog>>

playVars == <<viewingStories>>

uiVars == <<barVars, dialogVars, playVars>>

lateVars == <<raceVars, toastVars, rtVars, uiVars>>

sideVars == <<readVars, badgeVars, postVars, lateVars>>

restVars == <<authVars, sideVars>>

vars == <<msgVars, ephVars, viewVars, restVars>>

\* ------------------------------------------------------ row-level policies
\* get_my_profile_id() of a request issued by client c: the profile of
\* auth.uid().  A user and their profile carry the same name; a request of a
\* signed-out client carries None, which owns no row.
get_my_profile_id(c) == user[c]

\* policy "Users can view conversation participants" (as replaced by the
\* last migration): USING (profile_id = get_my_profile_id())
ParticipantsSelectPolicy(c, row) == row.profile_id = get_my_profile_id(c)

VisibleParticipants(c) ==
  {row \in conversation_participants : ParticipantsSelectPolicy(c, row)}

\* policy "Users can view own conversations"
ConversationsSelectPolicy(c, conv) ==
  \E row \in conversation_participants :
     row.conversation_id = conv.id /\ row.profile_id = get_my_profile_id(c)

\* policy "Users can view messages in their conversations"
MessagesSelectPolicy(c, m) ==
  \E row \in conversation_participants :
     row.conversation_id = m.conversation_id /\ row.profile_id = get_my_profile_id(c)

VisibleMessages(c) == {m \in messages : MessagesSelectPolicy(c, m)}

\* policy "Users can send messages": WITH CHECK (sender_id = get_my_profile_id())
MessagesInsertPolicy(c, m) == m.sender_id = get_my_profile_id(c)

\* public.conversations has SELECT and INSERT policies only: with row level
\* security enabled an UPDATE matches no row.
ConversationsUpdatePolicy(c, conv) == FALSE

\* ------------------------------------------------- NewConversationDialog
IdleCreate == [pc |-> "idle", self |-> None, other |-> None, newConv |-> 0,
               mounted |-> FALSE]

\* the client shows the messages page
OnMessagesPage(c) == pathname[c] = "/messages"

\* the scan of mutationFn: the conversations of profile.id in which
\* `other` has a participant row the caller can read
ExistingConversations(c, other) ==
  {row.conversation_id : row \in
     {r \in VisibleParticipants(c) :
        /\ r.profile_id = profile[c]
        /\ \E o \in VisibleParticipants(c) :
              o.conversation_id = r.conversation_id /\ o.profile_id = other}}

\* conversations in which both a and b have a participant row
ConversationsOf(a, b) ==
  {conv.id : conv \in
     {cv \in conversations :
        /\ [conversation_id |-> cv.id, profile_id |-> a] \in conversation_participants
        /\ [conversation_id |-> cv.id, profile_id |-> b] \in conversation_participants}}

InFlightFor(c, other) ==
  \E d \in Actors \ {c} :
     /\ createConversationMutation[d].pc # "idle"
     /\ {createConversationMutation[d].self, createConversationMutation[d].other}
          = {profile[c], other}

\* onSuccess of createConversationMutation; `kept` tells whether the
\* selection is still there (the x next to the name clears it at any time).
\* and whether the dialog that started the mutation is still mounted.
CreateOnSuccess(c, id, kept) ==
  IF kept
  THEN conversationId' = [conversationId EXCEPT ![c] = id]
  ELSE UNCHANGED conversationId

\* a user o of the search results (the query excludes profile.id) is picked
\* and handleNext runs: mutationFn up to the insert of the conversation
HandleNext(c, o) ==
  /\ OnMessagesPage(c)
  /\ profile[c] # None
  /\ o \in Actors \ {profile[c]}
  /\ createConversationMutation[c].pc = "idle"
  /\ overlapped' = (overlapped \/ InFlightFor(c, o))
  /\ IF ExistingConversations(c, o) # {}
     THEN \E id \in ExistingConversations(c, o) :
            /\ CreateOnSuccess(c, id, TRUE)
            /\ UNCHANGED createConversationMutation
     ELSE /\ createConversationMutation' =
               [createConversationMutation EXCEPT
                  ![c] = [pc |-> "insertConv", self |-> profile[c],
                          other |-> o, newConv |-> 0, mounted |-> TRUE]]
          /\ UNCHANGED conversationId
  /\ UNCHANGED <<ephVars, viewVars, restVars>>
  /\ UNCHANGED <<conversations, conversation_participants, messages, message,
                 sendMessageMutation, blankSubmitted, conversationsData>>

\* mutant: an insert is given the id of the row inserted last
NextConversationId_Last ==
  IF conversations = {} THEN 1 ELSE Cardinality(conversations)

\* the id the insert of a conversation row is given (gen_random_uuid():
\* one that no row has yet)
NextConversationId == Cardinality(conversations) + 1

\* no toast() call yet
NoToast == [n |-> 0, title |-> ""]

\* toast({ title, ... })
Toast(c, title) == toast' = [toast EXCEPT ![c] = [n |-> 1 - @.n, title |-> title]]

\* onError of createConversationMutation
CreateOnError(c) == Toast(c, "Error")

\* the other clients whose creation for the same pair has inserted its
\* conversation row and not yet its participants
RacingWith(c) ==
  {d \in Actors \ {c} :
     /\ createConversationMutation[d].pc = "insertParts"
     /\ {createConversationMutation[d].self, createConversationMutation[d].other}
          = {createConversationMutation[c].self, createConversationMutation[c].other}}

\* from('conversations').insert({}).select('id').single()
InsertConversation(c, ok) ==
  /\ createConversationMutation[c].pc = "insertConv"
  /\ IF ok
     THEN /\ Cardinality(conversations) < MaxConv
          /\ conversations' = conversations \cup
                {[id |-> NextConversationId, updated_at |-> 0]}
          /\ createConversationMutation' =
               [createConversationMutation EXCEPT
                  ![c].pc = "insertParts", ![c].newConv = NextConversationId]
          /\ raceIds' = raceIds \cup
               UNION {{NextConversationId, createConversationMutation[d].newConv} :
                        d \in RacingWith(c)}
          /\ UNCHANGED toast
     ELSE /\ createConversationMutation' =
               [createConversationMutation EXCEPT ![c] = IdleCreate]
          /\ CreateOnError(c)
          /\ UNCHANGED <<conversations, raceIds>>
  /\ UNCHANGED <<ephVars, viewVars, authVars, readVars, badgeVars, postVars,
                 rtVars, uiVars>>
  /\ UNCHANGED <<conversation_participants, messages, overlapped,
                 conversationId, message, sendMessageMutation, blankSubmitted,
                 conversationsData>>

\* from('conversation_participants').insert([self, other]), then onSuccess;
\* a refused insert ends in onError, where the selection plays no part
InsertParticipants(c, ok, kept) ==
  /\ createConversationMutation[c].pc = "insertParts"
  /\ createConversationMutation' =
       [createConversationMutation EXCEPT ![c] = IdleCreate]
  /\ IF ok
     THEN /\ conversation_participants' = conversation_participants \cup
                {[conversation_id |-> createConversationMutation[c].newConv,
                  profile_id |-> createConversationMutation[c].self],
                 [conversation_id |-> createConversationMutation[c].newConv,
                  profile_id |-> createConversationMutation[c].other]}
          /\ CreateOnSuccess(c, createConversationMutation[c].newConv,
                             kept /\ createConversationMutation[c].mounted)
          /\ UNCHANGED toast
     ELSE /\ kept
          /\ CreateOnError(c)
          /\ UNCHANGED <<conversation_participants, conversationId>>
  /\ UNCHANGED <<ephVars, viewVars, authVars, readVars, badgeVars, postVars,
                 raceVars, rtVars, uiVars>>
  /\ UNCHANGED <<conversations, messages, overlapped, message,
                 sendMessageMutation, blankSubmitted, conversationsData>>

\* ---------------------------------------------------------------- ChatArea
\* no send in flight (mutation status idle or success)
IdleSend == [status |-> "idle", message |-> <<>>, conversationId |-> 0,
             sender |-> None]

\* onChange of the compose input
SetMessage(c, text) ==
  /\ conversationId[c] # 0
  /\ text \in Strings
  /\ message[c] # text
  /\ message' = [message EXCEPT ![c] = text]
  /\ UNCHANGED <<ephVars, viewVars, restVars>>
  /\ UNCHANGED <<conversations, conversation_participants, messages,
                 createConversationMutation, overlapped, conversationId,
                 sendMessageMutation, blankSubmitted, conversationsData>>

\* mutant: the guard looks at the raw input instead of the trimmed one
CanSend_Untrimmed(text) == text # <<>>

\* the guard of handleSend and of mutationFn: message.trim() is truthy
CanSend(text) == Trim(text) # <<>>

\* handleSend: the submit of the compose form.  While a send is pending the
\* submit button is disabled, so the form cannot be submitted again.
HandleSend(c) ==
  /\ conversationId[c] # 0
  /\ profile[c] # None
  /\ sendMessageMutation[c].status # "pending"
  /\ IF CanSend(message[c])
     THEN /\ Cardinality(messages) < MaxMsgs
          /\ sendMessageMutation' =
               [sendMessageMutation EXCEPT
                  ![c] = [status |-> "pending", message |-> message[c],
                          conversationId |-> conversationId[c],
                          sender |-> profile[c]]]
          /\ UNCHANGED blankSubmitted
     ELSE /\ blankSubmitted' = TRUE
          /\ UNCHANGED sendMessageMutation
  /\ UNCHANGED <<ephVars, viewVars, restVars>>
  /\ UNCHANGED <<conversations, conversation_participants, messages,
                 createConversationMutation, overlapped, conversationId, message,
                 conversationsData>>

NextMessageId == Cardinality(messages) + 1

\* the row mutationFn inserts
NewMessage(c) ==
  [id |-> NextMessageId,
   conversation_id |-> sendMessageMutation[c].conversationId,
   sender_id |-> sendMessageMutation[c].sender,
   content |-> Trim(sendMessageMutation[c].message),
   is_read |-> FALSE]

\* update({updated_at}).eq('id', conversationId): the rows the caller may update
Touch(c, id) ==
  {IF conv.id = id /\ ConversationsUpdatePolicy(c, conv)
   THEN [conv EXCEPT !.updated_at = @ + 1] ELSE conv : conv \in conversations}

\* the message insert came back without an error: the conversation is
\* touched (its result is not looked at) and onSuccess clears the input
SendSucceeds(c, touchOk) ==
  /\ sendMessageMutation[c].status = "pending"
  /\ MessagesInsertPolicy(c, NewMessage(c))
  /\ Cardinality(messages) < MaxMsgs
  /\ messages' = messages \cup {NewMessage(c)}
  /\ conversations' = IF touchOk
                      THEN Touch(c, sendMessageMutation[c].conversationId)
                      ELSE conversations
  /\ message' = [message EXCEPT ![c] = <<>>]
  /\ sendMessageMutation' = [sendMessageMutation EXCEPT ![c] = IdleSend]
  /\ UNCHANGED <<ephVars, viewVars, restVars>>
  /\ UNCHANGED <<conversation_participants, createConversationMutation,
                 overlapped, conversationId, blankSubmitted, conversationsData>>

\* mutant: the input is cleared whatever the outcome of the insert
SendFails_ClearsInput(c) ==
  /\ sendMessageMutation[c].status = "pending"
  /\ sendMessageMutation' = [sendMessageMutation EXCEPT ![c].status = "error"]
  /\ message' = [message EXCEPT ![c] = <<>>]
  /\ UNCHANGED <<ephVars, viewVars, restVars>>
  /\ UNCHANGED <<conversations, conversation_participants, messages,
                 createConversationMutation, overlapped, conversationId,
                 blankSubmitted, conversationsData>>

\* the message insert came back with an error: mutationFn throws, there is
\* no onError, the compose input is left alone
SendFails(c) ==
  /\ sendMessageMutation[c].status = "pending"
  /\ sendMessageMutation' = [sendMessageMutation EXCEPT ![c].status = "error"]
  /\ UNCHANGED <<ephVars, viewVars, restVars>>
  /\ UNCHANGED <<conversations, conversation_participants, messages,
                 createConversationMutation, overlapped, conversationId, message,
                 blankSubmitted, conversationsData>>

\* -------------------------------------------------------- ConversationList
Max(S) == CHOOSE x \in S : \A y \in S : y <= x

\* the newest message of a conversation the caller can read, 0 when none
LastMessage(c, id) ==
  LET ms == {m.id : m \in {v \in VisibleMessages(c) : v.conversation_id = id}}
  IN IF ms = {} THEN 0 ELSE Max(ms)

UnreadCount(c, id) ==
  Cardinality({m \in VisibleMessages(c) :
                 m.conversation_id = id /\ ~m.is_read /\ m.sender_id # profile[c]})

\* .eq('conversation_id', convId).neq('profile_id', profile.id).single()
OtherParticipants(c, id) ==
  {row.profile_id : row \in
     {r \in VisibleParticipants(c) :
        r.conversation_id = id /\ r.profile_id # profile[c]}}

\* queryFn of the conversations query: a conversation without exactly one
\* readable other participant is skipped
ConversationListQuery(c) ==
  LET ids == {row.conversation_id : row \in
                {r \in VisibleParticipants(c) :
                   /\ r.profile_id = profile[c]
                   /\ \E conv \in conversations :
                        conv.id = r.conversation_id /\ ConversationsSelectPolicy(c, conv)}}
  IN {[id |-> id,
       participant |-> CHOOSE o \in OtherParticipants(c, id) : TRUE,
       lastMessage |-> LastMessage(c, id),
       unreadCount |-> UnreadCount(c, id)] :
        id \in {i \in ids : Cardinality(OtherParticipants(c, i)) = 1}}

\* the conversations query resolves (first fetch, refetchInterval, invalidation)
PollConversations(c) ==
  /\ OnMessagesPage(c)
  /\ profile[c] # None
  /\ conversationsData[c] # [polled |-> TRUE, rows |-> ConversationListQuery(c)]
  /\ conversationsData' =
       [conversationsData EXCEPT
          ![c] = [polled |-> TRUE, rows |-> ConversationListQuery(c)]]
  /\ UNCHANGED <<ephVars, viewVars, restVars>>
  /\ UNCHANGED <<conversations, conversation_participants, messages,
                 createConversationMutation, overlapped, conversationId, message,
                 sendMessageMutation, blankSubmitted>>

\* ------------------------------------------------------- ephemeral content
\* expires_at DEFAULT (now() + INTERVAL '24 hours'), of stories and of notes
TTL == 24

\* the instants, in hours, at which a client acts or the clock is read
Instants == {0, 23, 24, 25}

NoQuery == [queryKey |-> "none", viewer |-> None, at |-> 0, rows |-> {}]

\* policy "Follows are viewable by authenticated users": USING (true)
FollowsSelectPolicy(c, row) == TRUE

\* policy "Users can view own close friends": USING (user_id = get_my_profile_id())
CloseFriendsSelectPolicy(c, row) == row.user_id = get_my_profile_id(c)

VisibleCloseFriends(c) ==
  {row \in close_friends : CloseFriendsSelectPolicy(c, row)}

\* EXISTS (SELECT 1 FROM follows WHERE follower_id = get_my_profile_id()
\*         AND following_id = author), evaluated as the caller
FollowsAuthor(c, author) ==
  \E row \in follows :
     /\ FollowsSelectPolicy(c, row)
     /\ row.follower_id = get_my_profile_id(c)
     /\ row.following_id = author

\* EXISTS (SELECT 1 FROM close_friends WHERE user_id = author
\*         AND friend_id = get_my_profile_id()), evaluated as the caller: the
\* sub-select reads close_friends through the caller's own SELECT policy
CloseFriendOfAuthor(c, author) ==
  \E row \in VisibleCloseFriends(c) :
     row.user_id = author /\ row.friend_id = get_my_profile_id(c)

\* mutant: the privacy of the author is not looked at
StoriesSelectPolicy_IgnoresPrivacy(c, s) ==
  \/ s.profile_id = get_my_profile_id(c)
  \/ (~s.is_close_friends_only \/ CloseFriendOfAuthor(c, s.profile_id))

\* policy "Stories viewable based on privacy and follows"
StoriesSelectPolicy(c, s) ==
  \/ s.profile_id = get_my_profile_id(c)
  \/ /\ (~is_private[s.profile_id] \/ FollowsAuthor(c, s.profile_id))
     /\ (~s.is_close_friends_only \/ CloseFriendOfAuthor(c, s.profile_id))

\* policy "Notes viewable based on privacy and follows"
NotesSelectPolicy(c, n) ==
  \/ n.profile_id = get_my_profile_id(c)
  \/ FollowsAuthor(c, n.profile_id)

\* mutant: a row expiring at the very instant of the query is still listed
NotExpired_Inclusive(row, t) == row.expires_at >= t

\* .gt('expires_at', new Date().toISOString())
NotExpired(row, t) == row.expires_at > t

\* queryFn of the stories query of StoriesBar: the rows it groups
StoriesQuery(c, t) ==
  {s \in stories : StoriesSelectPolicy(c, s) /\ NotExpired(s, t)}

\* queryFn of the notes query of NotesBar
NotesQuery(c, t) ==
  {n \in notes : NotesSelectPolicy(c, n) /\ NotExpired(n, t)}

\* queryFn of the my-note query: the newest own note that has not expired
\* (.order('created_at', descending).limit(1)), all candidates on a tie
MyNoteQuery(c, t) ==
  LET own == {n \in NotesQuery(c, t) : n.profile_id = c}
  IN {n \in own : \A m \in own : m.created_at <= n.created_at}

\* stories and notes created so far
Posts == Cardinality(stories) + Cardinality(notes)

\* the ids a story or a note can have
PostIds == 1..MaxPosts

NextStoryId == Cardinality(stories) + 1

\* mutant: the story is stored with a lifetime one hour short of a day
CreateStory_ShortLived(c, cf) ==
  /\ Posts < MaxPosts
  /\ stories' = stories \cup
       {[id |-> NextStoryId, profile_id |-> c, is_close_friends_only |-> cf,
         created_at |-> now, expires_at |-> now + 23]}
  /\ lastQuery' = NoQuery
  /\ UNCHANGED <<now, is_private, follows, close_friends, notes, notifications>>
  /\ UNCHANGED <<msgVars, viewVars, restVars>>

\* createStoryMutation: the insert gives no expires_at, the column default
\* applies; a refused insert changes nothing
CreateStory(c, cf) ==
  /\ Posts < MaxPosts
  /\ stories' = stories \cup
       {[id |-> NextStoryId, profile_id |-> c, is_close_friends_only |-> cf,
         created_at |-> now, expires_at |-> now + TTL]}
  /\ lastQuery' = NoQuery
  /\ UNCHANGED <<now, is_private, follows, close_friends, notes, notifications>>
  /\ UNCHANGED <<msgVars, viewVars, restVars>>

NextNoteId == Cardinality(notes) + 1

\* createNoteMutation
CreateNote(c) ==
  /\ Posts < MaxPosts
  /\ notes' = notes \cup
       {[id |-> NextNoteId, profile_id |-> c,
         created_at |-> now, expires_at |-> now + TTL]}
  /\ lastQuery' = NoQuery
  /\ UNCHANGED <<now, is_private, follows, close_friends, stories, notifications>>
  /\ UNCHANGED <<msgVars, viewVars, restVars>>

FollowNotification(c, o) ==
  [profile_id |-> o, type |-> "follow", actor_id |-> c,
   content_type |-> None, content_id |-> 0]

\* followMutation of the profile page of o; isFollowing is the cached answer
\* of the is-following query, which may lag behind the table.  No result is
\* looked at: the notification is written whatever the insert did.
FollowMutation(c, o, isFollowing) ==
  /\ o # c
  /\ LET edge == [follower_id |-> c, following_id |-> o]
     IN IF isFollowing
        THEN /\ follows' = follows \ {edge}
             /\ UNCHANGED notifications
        ELSE /\ follows' = follows \cup {edge}
             /\ notifications' = notifications \cup {FollowNotification(c, o)}
  /\ lastQuery' = NoQuery
  /\ UNCHANGED <<now, is_private, close_friends, stories, notes>>
  /\ UNCHANGED <<msgVars, viewVars, restVars>>

\* toggleCloseFriendMutation: friendId is one of the listed followers,
\* isCloseFriendNow comes from the cached close-friends query
ToggleCloseFriendMutation(c, friendId, isCloseFriendNow) ==
  /\ friendId # c
  /\ [follower_id |-> friendId, following_id |-> c] \in follows
  /\ LET edge == [user_id |-> c, friend_id |-> friendId]
     IN close_friends' = IF isCloseFriendNow
                         THEN close_friends \ {edge}
                         ELSE close_friends \cup {edge}
  /\ lastQuery' = NoQuery
  /\ UNCHANGED <<now, is_private, follows, stories, notes, notifications>>
  /\ UNCHANGED <<msgVars, viewVars, restVars>>

\* time passes
Tick(t) ==
  /\ t \in Instants
  /\ t > now
  /\ now' = t
  /\ lastQuery' = NoQuery
  /\ UNCHANGED <<is_private, follows, close_friends, stories, notes, notifications>>
  /\ UNCHANGED <<msgVars, viewVars, restVars>>

\* the stories query of StoriesBar is answered
FetchStories(c) ==
  /\ lastQuery' = [queryKey |-> "stories", viewer |-> c, at |-> now,
                   rows |-> StoriesQuery(c, now)]
  /\ UNCHANGED <<now, is_private, follows, close_friends, stories, notes,
                 notifications>>
  /\ UNCHANGED <<msgVars, viewVars, restVars>>

\* the notes query of NotesBar is answered
FetchNotes(c) ==
  /\ lastQuery' = [queryKey |-> "notes", viewer |-> c, at |-> now,
                   rows |-> NotesQuery(c, now)]
  /\ UNCHANGED <<now, is_private, follows, close_friends, stories, notes,
                 notifications>>
  /\ UNCHANGED <<msgVars, viewVars, restVars>>

\* the my-note query of NotesBar is answered (maybeSingle: one row at most)
FetchMyNote(c) ==
  /\ \E rows \in {{n} : n \in MyNoteQuery(c, now)} \cup
                 (IF MyNoteQuery(c, now) = {} THEN {{}} ELSE {}) :
        lastQuery' = [queryKey |-> "my-note", viewer |-> c, at |-> now,
                      rows |-> rows]
  /\ UNCHANGED <<now, is_private, follows, close_friends, stories, notes,
                 notifications>>
  /\ UNCHANGED <<msgVars, viewVars, restVars>>

\* -------------------------------------------------------------- StoryViewer
ClosedViewer == [story |-> 0, isLiked |-> FALSE]

NoRun == [story |-> 0, storyToggles |-> 0, note |-> 0, noteToggles |-> 0]

\* policy "Users can mark stories as viewed": WITH CHECK (viewer_id = get_my_profile_id())
StoryViewsInsertPolicy(c, row) == row.viewer_id = get_my_profile_id(c)

\* public.story_views has SELECT and INSERT policies only: no row passes an
\* UPDATE
StoryViewsUpdatePolicy(c, row) == FALSE

\* policy "Story likes viewable by story owner"
StoryLikesSelectPolicy(c, row) ==
  \/ \E s \in stories :
        /\ StoriesSelectPolicy(c, s)
        /\ s.id = row.story_id
        /\ s.profile_id = get_my_profile_id(c)
  \/ row.profile_id = get_my_profile_id(c)

\* policies "Users can like stories" / "Users can unlike stories",
\* "Users can like notes" / "Users can unlike notes"
LikesWritePolicy(c, row) == row.profile_id = get_my_profile_id(c)

\* policy "Note likes are viewable": USING (true)
NoteLikesSelectPolicy(c, row) == TRUE

\* upsert(row, {onConflict: 'story_id,viewer_id'}) is INSERT ... ON CONFLICT
\* (story_id, viewer_id) DO UPDATE: without a conflict the row is inserted
\* under the INSERT policy; on a conflict the existing row must pass the
\* UPDATE policy, and the statement fails when it does not
Upsert(c, row) ==
  IF row \notin story_views
  THEN IF StoryViewsInsertPolicy(c, row)
       THEN [rows |-> story_views \cup {row}, error |-> FALSE]
       ELSE [rows |-> story_views, error |-> TRUE]
  ELSE IF StoryViewsUpdatePolicy(c, row)
       THEN [rows |-> story_views, error |-> FALSE]
       ELSE [rows |-> story_views, error |-> TRUE]

\* from('story_likes').select('id').eq(story).eq(profile).maybeSingle()
CheckLiked(c, sid) ==
  \E row \in story_likes :
     /\ StoryLikesSelectPolicy(c, row)
     /\ row.story_id = sid
     /\ row.profile_id = c

\* a story ring of StoriesBar is opened: StoryViewer mounts and, for a story
\* of somebody else, its effect marks the story viewed and asks whether it
\* is liked; reached tells whether the requests got to the backend
OpenStory(c, sid, reached) ==
  /\ storyViewer[c].story = 0
  /\ \E s \in StoriesQuery(c, now) :
        /\ s.id = sid
        /\ IF s.profile_id # c /\ reached
           THEN LET res == Upsert(c, [story_id |-> sid, viewer_id |-> c])
                IN /\ story_views' = res.rows
                   /\ markSeen' =
                        [markSeen EXCEPT
                           ![c] = [calls |-> IF @.calls < 2 THEN @.calls + 1 ELSE 2,
                                   error |-> res.error]]
                   /\ storyViewer' =
                        [storyViewer EXCEPT
                           ![c] = [story |-> sid, isLiked |-> CheckLiked(c, sid)]]
           ELSE /\ storyViewer' =
                     [storyViewer EXCEPT ![c] = [story |-> sid, isLiked |-> FALSE]]
                /\ UNCHANGED <<story_views, markSeen>>
  /\ UNCHANGED <<story_likes, note_likes, notesData, selectedNote, likeRun>>
  /\ UNCHANGED <<msgVars, ephVars, restVars>>

\* onClose: the viewer unmounts and its state is gone
CloseStory(c) ==
  /\ storyViewer[c].story # 0
  /\ storyViewer' = [storyViewer EXCEPT ![c] = ClosedViewer]
  /\ UNCHANGED <<story_views, story_likes, note_likes, markSeen, notesData,
                 selectedNote, likeRun>>
  /\ UNCHANGED <<msgVars, ephVars, restVars>>

LikeNotification(c, owner, kind, id) ==
  [profile_id |-> owner, type |-> "like", actor_id |-> c,
   content_type |-> kind, content_id |-> id]

\* the toggles completed in a row on one item: a run starts with a toggle
\* on an item that is not liked, locally and in the table
NextToggles(run, id, n, fresh) ==
  IF run = id /\ n = 1 THEN 2
  ELSE IF fresh THEN 1 ELSE 0

\* likeMutation of StoryViewer.  Neither the delete, the insert nor the
\* notification insert has its result looked at, so onSuccess always runs
\* and flips isLiked; ok / notifOk tell whether the backend took the write.
StoryLikeMutation(c, ok, notifOk) ==
  /\ storyViewer[c].story # 0
  /\ LET sid == storyViewer[c].story
         row == [story_id |-> sid, profile_id |-> c]
         owner == (CHOOSE s \in stories : s.id = sid).profile_id
         fresh == ~storyViewer[c].isLiked /\ row \notin story_likes
     IN /\ IF storyViewer[c].isLiked
           THEN /\ story_likes' = IF ok /\ LikesWritePolicy(c, row)
                                  THEN story_likes \ {row} ELSE story_likes
                /\ UNCHANGED notifications
           ELSE /\ story_likes' = IF ok /\ LikesWritePolicy(c, row)
                                  THEN story_likes \cup {row} ELSE story_likes
                /\ notifications' =
                     IF owner # c /\ notifOk
                     THEN notifications \cup {LikeNotification(c, owner, "story", sid)}
                     ELSE notifications
        /\ storyViewer' = [storyViewer EXCEPT ![c].isLiked = ~@]
        /\ likeRun' =
             [likeRun EXCEPT
                ![c].story = sid,
                ![c].storyToggles = NextToggles(likeRun[c].story, sid, @, fresh)]
  /\ UNCHANGED <<story_views, note_likes, markSeen, notesData, selectedNote>>
  /\ UNCHANGED <<msgVars, now, is_private, follows, close_friends, stories,
                 notes, lastQuery>>
  /\ UNCHANGED restVars

\* ----------------------------------------------------------------- NotesBar
NoNote == [id |-> 0, profile_id |-> None, is_liked |-> FALSE]

\* queryFn of the notes query: every listed note with is_liked of the caller
NotesWithLikes(c) ==
  {[id |-> n.id, profile_id |-> n.profile_id,
    is_liked |-> \E row \in note_likes :
                    /\ NoteLikesSelectPolicy(c, row)
                    /\ row.note_id = n.id
                    /\ row.profile_id = c] : n \in NotesQuery(c, now)}

\* the notes query is answered (first fetch or refetch after invalidation)
RefetchNotes(c) ==
  /\ notesData[c] # NotesWithLikes(c)
  /\ notesData' = [notesData EXCEPT ![c] = NotesWithLikes(c)]
  /\ UNCHANGED <<story_views, story_likes, note_likes, storyViewer, markSeen,
                 selectedNote, likeRun>>
  /\ UNCHANGED <<msgVars, ephVars, restVars>>

\* a note of somebody else is clicked: the detail dialog holds that object
SelectNote(c, nid) ==
  /\ selectedNote[c] = NoNote
  /\ \E note \in notesData[c] :
        /\ note.id = nid
        /\ note.profile_id # c
        /\ selectedNote' = [selectedNote EXCEPT ![c] = note]
  /\ UNCHANGED <<story_views, story_likes, note_likes, storyViewer, markSeen,
                 notesData, likeRun>>
  /\ UNCHANGED <<msgVars, ephVars, restVars>>

\* the detail dialog is closed
CloseNote(c) ==
  /\ selectedNote[c] # NoNote
  /\ selectedNote' = [selectedNote EXCEPT ![c] = NoNote]
  /\ UNCHANGED <<story_views, story_likes, note_likes, storyViewer, markSeen,
                 notesData, likeRun>>
  /\ UNCHANGED <<msgVars, ephVars, restVars>>

\* likeMutation of NotesBar, called with the note of the detail dialog.  No
\* result is looked at; onSuccess invalidates the notes query and closes the
\* dialog.
NoteLikeMutation(c, ok, notifOk) ==
  /\ selectedNote[c] # NoNote
  /\ LET note == selectedNote[c]
         row == [note_id |-> note.id, profile_id |-> c]
         fresh == ~note.is_liked /\ row \notin note_likes
     IN /\ IF note.is_liked
           THEN /\ note_likes' = IF ok /\ LikesWritePolicy(c, row)
                                 THEN note_likes \ {row} ELSE note_likes
                /\ UNCHANGED notifications
           ELSE /\ note_likes' = IF ok /\ LikesWritePolicy(c, row)
                                 THEN note_likes \cup {row} ELSE note_likes
                /\ notifications' =
                     IF note.profile_id # c /\ notifOk
                     THEN notifications \cup
                            {LikeNotification(c, note.profile_id, "note", note.id)}
                     ELSE notifications
        /\ likeRun' =
             [likeRun EXCEPT
                ![c].note = note.id,
                ![c].noteToggles = NextToggles(likeRun[c].note, note.id, @, fresh)]
  /\ selectedNote' = [selectedNote EXCEPT ![c] = NoNote]
  /\ UNCHANGED <<story_views, story_likes, storyViewer, markSeen, notesData>>
  /\ UNCHANGED <<msgVars, now, is_private, follows, close_friends, stories,
                 notes, lastQuery>>
  /\ UNCHANGED restVars

\* ------------------------------------------- ChatArea: read receipts
\* policy "Users can update messages in their conversations"
MessagesUpdatePolicy(c, m) ==
  \E row \in conversation_participants :
     row.conversation_id = m.conversation_id /\ row.profile_id = get_my_profile_id(c)

\* queryFn of the messages query: the readable rows of the open conversation
MessagesQuery(c) ==
  {m \in VisibleMessages(c) : m.conversation_id = conversationId[c]}

\* the messages query resolves (first fetch, refetchInterval)
FetchMessages(c) ==
  /\ conversationId[c] # 0
  /\ messagesData[c] # MessagesQuery(c)
  /\ messagesData' = [messagesData EXCEPT ![c] = MessagesQuery(c)]
  /\ UNCHANGED <<msgVars, ephVars, viewVars, authVars, markedRead, badgeVars, postVars, lateVars>>

\* messages.filter(m => !m.is_read && m.sender_id !== profile.id) over the
\* cached rows of the open conversation
UnreadMessages(c) ==
  {m \in messagesData[c] :
     m.conversation_id = conversationId[c] /\ ~m.is_read /\ m.sender_id # profile[c]}

\* the rows update(...).in('id', ids) reaches under the UPDATE policy
UpdatedRows(c, ids) ==
  {m \in messages : m.id \in ids /\ MessagesUpdatePolicy(c, m)}

\* mutant: the update flips the flag of the rows it reaches
MarkRead_Flips(c, ok) ==
  /\ conversationId[c] # 0
  /\ profile[c] # None
  /\ LET ids == {m.id : m \in {u \in messagesData[c] :
                                   u.conversation_id = conversationId[c]
                                   /\ u.sender_id # profile[c]}}
     IN /\ ids # {}
        /\ messages' = IF ok
                        THEN {IF m \in UpdatedRows(c, ids)
                              THEN [m EXCEPT !.is_read = ~@] ELSE m : m \in messages}
                        ELSE messages
        /\ markedRead' = IF ok
                          THEN markedRead \cup
                                 {[id |-> m.id, by |-> user[c]] :
                                    m \in {u \in UpdatedRows(c, ids) : ~u.is_read}}
                          ELSE markedRead
  /\ UNCHANGED <<conversations, conversation_participants,
                 createConversationMutation, overlapped, conversationId, message,
                 sendMessageMutation, blankSubmitted, conversationsData>>
  /\ UNCHANGED <<ephVars, viewVars, authVars, messagesData, badgeVars, postVars, lateVars>>

\* the mark-as-read effect on [messages, profile?.id]:
\* update({ is_read: true }).in('id', unread ids)
MarkRead(c, ok) ==
  /\ conversationId[c] # 0
  /\ profile[c] # None
  /\ LET ids == {m.id : m \in UnreadMessages(c)}
     IN /\ ids # {}
        /\ messages' = IF ok
                        THEN {IF m \in UpdatedRows(c, ids)
                              THEN [m EXCEPT !.is_read = TRUE] ELSE m : m \in messages}
                        ELSE messages
        /\ markedRead' = IF ok
                          THEN markedRead \cup
                                 {[id |-> m.id, by |-> user[c]] :
                                    m \in {u \in UpdatedRows(c, ids) : ~u.is_read}}
                          ELSE markedRead
  /\ UNCHANGED <<conversations, conversation_participants,
                 createConversationMutation, overlapped, conversationId, message,
                 sendMessageMutation, blankSubmitted, conversationsData>>
  /\ UNCHANGED <<ephVars, viewVars, authVars, messagesData, badgeVars, postVars, lateVars>>

\* the channel the effect opens for the conversation shown, none without
\* a ChatArea
ChannelsOf(id) == IF id = 0 THEN {} ELSE {id}

\* mutant: the effect returns no cleanup
SubscriptionEffect_NoCleanup(c) ==
  /\ subscribedFor[c] # conversationId[c]
  /\ channels' = [channels EXCEPT ![c] = @ \cup ChannelsOf(conversationId[c])]
  /\ subscribedFor' = [subscribedFor EXCEPT ![c] = conversationId[c]]
  /\ UNCHANGED <<msgVars, ephVars, viewVars, authVars, readVars, badgeVars,
                 postVars, raceVars, toastVars, uiVars>>

\* the realtime effect on [conversationId, queryClient] after a render with
\* another conversationId, and its cleanup at the unmount: removeChannel of
\* the channel of the run before, then channel(...).subscribe()
SubscriptionEffect(c) ==
  /\ subscribedFor[c] # conversationId[c]
  /\ channels' = [channels EXCEPT
                    ![c] = (@ \ ChannelsOf(subscribedFor[c]))
                             \cup ChannelsOf(conversationId[c])]
  /\ subscribedFor' = [subscribedFor EXCEPT ![c] = conversationId[c]]
  /\ UNCHANGED <<msgVars, ephVars, viewVars, authVars, readVars, badgeVars,
                 postVars, raceVars, toastVars, uiVars>>

\* ------------------------------------------------------------- AuthProvider
Paths == {"/auth", "/", "/admin", "/messages"}

\* public.user_roles: the last migration grants admin to one account, and no
\* client writes the table
user_roles == {[user_id |-> "A", role |-> "admin"]}

\* SELECT role FROM user_roles WHERE user_id = u AND role = 'admin'
HasAdminRole(u) == [user_id |-> u, role |-> "admin"] \in user_roles

Request(kind, u) == [kind |-> kind, userId |-> u]

\* navigate(path): a route change unmounts the page that was shown; the
\* messages page takes ChatArea, the compose input and the dialog with it
\* (a creation in flight still runs, its onSuccess opens nothing)
Goto(c, path, effect) ==
  /\ pathname' = [pathname EXCEPT ![c] = path]
  /\ redirected' = [redirected EXCEPT ![c] = effect]
  /\ conversationId' =
       [conversationId EXCEPT ![c] = IF path = pathname[c] THEN @ ELSE 0]
  /\ message' = [message EXCEPT ![c] = IF path = pathname[c] THEN @ ELSE <<>>]
  /\ createConversationMutation' =
       [createConversationMutation EXCEPT
          ![c].mounted = IF path = pathname[c] THEN @ ELSE FALSE]
  /\ UNCHANGED <<conversations, conversation_participants, messages, overlapped,
                 sendMessageMutation, blankSubmitted, conversationsData>>

\* the session part of the onAuthStateChange callback and of the getSession
\* continuation: with a user both requests go out, without one the identity
\* is cleared
SetSession(c, u) ==
  /\ user' = [user EXCEPT ![c] = u]
  /\ IF u # None
     THEN /\ pending' = [pending EXCEPT
                ![c] = @ \cup {Request("fetchProfile", u),
                               Request("checkAdminRole", u)}]
          /\ UNCHANGED <<profile, realProfile, isAdmin, impersonatedProfile>>
     ELSE /\ profile' = [profile EXCEPT ![c] = None]
          /\ realProfile' = [realProfile EXCEPT ![c] = None]
          /\ isAdmin' = [isAdmin EXCEPT ![c] = FALSE]
          /\ impersonatedProfile' = [impersonatedProfile EXCEPT ![c] = None]
          /\ UNCHANGED pending

\* supabase.auth.getSession().then(...): u is the user of the stored
\* session, None when there is none
GetSessionResolves(c, u) ==
  /\ isLoading[c]
  /\ u \in (IF user[c] = None THEN Actors \cup {None} ELSE {user[c]})
  /\ user' = [user EXCEPT ![c] = u]
  /\ pending' = [pending EXCEPT
       ![c] = IF u = None THEN @
              ELSE @ \cup {Request("fetchProfile", u), Request("checkAdminRole", u)}]
  /\ isLoading' = [isLoading EXCEPT ![c] = FALSE]
  /\ UNCHANGED <<profile, realProfile, impersonatedProfile, isAdmin, pathname, redirected>>
  /\ UNCHANGED <<msgVars, ephVars, viewVars, sideVars>>

\* signIn on the auth page succeeds: onAuthStateChange(SIGNED_IN, session)
SignIn(c, u) ==
  /\ pathname[c] = "/auth"
  /\ user[c] = None
  /\ u \in Actors
  /\ SetSession(c, u)
  /\ UNCHANGED <<isLoading, pathname, redirected>>
  /\ UNCHANGED <<msgVars, ephVars, viewVars, sideVars>>

\* onAuthStateChange for the session in place (the token was refreshed)
AuthStateChange(c) ==
  /\ user[c] # None
  /\ Request("fetchProfile", user[c]) \notin pending[c]
       \/ Request("checkAdminRole", user[c]) \notin pending[c]
  /\ SetSession(c, user[c])
  /\ UNCHANGED <<isLoading, pathname, redirected>>
  /\ UNCHANGED <<msgVars, ephVars, viewVars, sideVars>>

\* onAuthStateChange(SIGNED_OUT, null) without a call of signOut: the
\* session expired or was revoked
SessionEnds(c) ==
  /\ user[c] # None
  /\ SetSession(c, None)
  /\ UNCHANGED <<isLoading, pathname, redirected>>
  /\ UNCHANGED <<msgVars, ephVars, viewVars, sideVars>>

\* signOut: the SIGNED_OUT callback, the four setters, navigate('/auth')
SignOut(c) ==
  /\ user[c] # None
  /\ SetSession(c, None)
  /\ Goto(c, "/auth", FALSE)
  /\ UNCHANGED isLoading
  /\ UNCHANGED <<ephVars, viewVars, sideVars>>

\* refreshProfile (the settings and edit-profile pages call it after a save)
RefreshProfile(c) ==
  /\ user[c] # None
  /\ Request("fetchProfile", user[c]) \notin pending[c]
  /\ pending' = [pending EXCEPT ![c] = @ \cup {Request("fetchProfile", user[c])}]
  /\ UNCHANGED <<user, profile, realProfile, impersonatedProfile, isLoading,
                 isAdmin, pathname, redirected>>
  /\ UNCHANGED <<msgVars, ephVars, viewVars, sideVars>>

\* the answer of fetchProfile(u) arrives: if (data) { setProfile; setRealProfile }
FetchProfileResponse(c, u, ok) ==
  /\ Request("fetchProfile", u) \in pending[c]
  /\ pending' = [pending EXCEPT ![c] = @ \ {Request("fetchProfile", u)}]
  /\ IF ok
     THEN /\ profile' = [profile EXCEPT ![c] = u]
          /\ realProfile' = [realProfile EXCEPT ![c] = u]
     ELSE UNCHANGED <<profile, realProfile>>
  /\ UNCHANGED <<user, impersonatedProfile, isLoading, isAdmin, pathname, redirected>>
  /\ UNCHANGED <<msgVars, ephVars, viewVars, sideVars>>

\* the answer of checkAdminRole(u) arrives: setIsAdmin(!!data)
CheckAdminRoleResponse(c, u, ok) ==
  /\ Request("checkAdminRole", u) \in pending[c]
  /\ pending' = [pending EXCEPT ![c] = @ \ {Request("checkAdminRole", u)}]
  /\ isAdmin' = [isAdmin EXCEPT ![c] = ok /\ HasAdminRole(u)]
  /\ UNCHANGED <<user, profile, realProfile, impersonatedProfile, isLoading,
                 pathname, redirected>>
  /\ UNCHANGED <<msgVars, ephVars, viewVars, sideVars>>

\* mutant: the effect sends a signed-out client to the home page
RedirectEffect_Home(c) ==
  /\ ~isLoading[c]
  /\ \/ user[c] = None /\ pathname[c] \notin {"/auth", "/"} /\ Goto(c, "/", FALSE)
     \/ user[c] # None /\ pathname[c] = "/auth" /\ Goto(c, "/", FALSE)
  /\ UNCHANGED <<user, profile, realProfile, impersonatedProfile, isLoading,
                 isAdmin, pending>>
  /\ UNCHANGED <<ephVars, viewVars, sideVars>>

\* the effect on [user, isLoading, location.pathname]
RedirectEffect(c) ==
  /\ ~isLoading[c]
  /\ \/ user[c] = None /\ pathname[c] # "/auth" /\ Goto(c, "/auth", TRUE)
     \/ user[c] # None /\ pathname[c] = "/auth" /\ Goto(c, "/", FALSE)
  /\ UNCHANGED <<user, profile, realProfile, impersonatedProfile, isLoading,
                 isAdmin, pending>>
  /\ UNCHANGED <<ephVars, viewVars, sideVars>>

\* the user follows a link or types an address
Navigate(c, path) ==
  /\ path \in Paths
  /\ path # pathname[c]
  /\ Goto(c, path, FALSE)
  /\ UNCHANGED <<user, profile, realProfile, impersonatedProfile, isLoading,
                 isAdmin, pending>>
  /\ UNCHANGED <<ephVars, viewVars, sideVars>>

\* ---------------------------------------------------------------- AdminPage
\* the page renders its tables once loading is over and isAdmin holds
AdminPageShown(c) == pathname[c] = "/admin" /\ ~isLoading[c] /\ isAdmin[c]

\* if (!isAdmin) return <Navigate to="/" replace />
AdminPageRedirect(c) ==
  /\ pathname[c] = "/admin"
  /\ ~isLoading[c]
  /\ ~isAdmin[c]
  /\ Goto(c, "/", FALSE)
  /\ UNCHANGED <<user, profile, realProfile, impersonatedProfile, isLoading,
                 isAdmin, pending>>
  /\ UNCHANGED <<ephVars, viewVars, sideVars>>

\* impersonateUser(targetProfile)
impersonateUser(c, t) ==
  IF ~isAdmin[c]
  THEN UNCHANGED <<impersonatedProfile, profile>>
  ELSE /\ impersonatedProfile' = [impersonatedProfile EXCEPT ![c] = t]
       /\ profile' = [profile EXCEPT ![c] = t]

\* handleImpersonate of a row of the users table: impersonateUser, navigate('/')
HandleImpersonate(c, t) ==
  /\ AdminPageShown(c)
  /\ t \in Actors
  /\ impersonateUser(c, t)
  /\ Goto(c, "/", FALSE)
  /\ UNCHANGED <<user, realProfile, isLoading, isAdmin, pending>>
  /\ UNCHANGED <<ephVars, viewVars, sideVars>>

\* exitImpersonation, the button of the banner the admin page shows while
\* impersonatedProfile is set
ExitImpersonation(c) ==
  /\ AdminPageShown(c)
  /\ impersonatedProfile[c] # None
  /\ impersonatedProfile' = [impersonatedProfile EXCEPT ![c] = None]
  /\ profile' = [profile EXCEPT
       ![c] = IF realProfile[c] # None THEN realProfile[c] ELSE @]
  /\ UNCHANGED <<user, realProfile, isLoading, isAdmin, pathname, redirected, pending>>
  /\ UNCHANGED <<msgVars, ephVars, viewVars, sideVars>>

\* ------------------------------------------------------ AdminPage: badges
\* SQL NULL in a badge column
Null == "NULL"

\* the values of the badge select; "" is the state before a choice
BadgeChoices == {"none", "blue", "red", "gold"}

\* the admin-users query before its first answer
NotLoaded == [loaded |-> FALSE, verified_type |-> [p \in Actors |-> Null]]

AdminUsersQuery == [loaded |-> TRUE, verified_type |-> verified_type]

\* mutant: the column takes any text
VerifiedTypeCheck_AnyText(v) == TRUE

\* CHECK (verified_type IN ('blue', 'red', 'gold') OR verified_type IS NULL)
VerifiedTypeCheck(v) == v \in {"blue", "red", "gold"} \/ v = Null

\* policy "Users can update own profile": USING (user_id = auth.uid())
ProfilesUpdatePolicy(c, p) == p = user[c]

\* !!type
Truthy(v) == v \notin {Null, ""}

\* the admin-users query resolves (profiles are readable by everybody)
FetchAdminUsers(c) ==
  /\ AdminPageShown(c)
  /\ adminUsers[c] # AdminUsersQuery
  /\ adminUsers' = [adminUsers EXCEPT ![c] = AdminUsersQuery]
  /\ UNCHANGED <<is_verified, verified_type, badgeDialogUser, badgeType>>
  /\ UNCHANGED <<msgVars, ephVars, viewVars, authVars, readVars, postVars, lateVars>>

\* the Manage Badge button of a row: setBadgeType(user.verified_type || '')
OpenBadgeDialog(c, u) ==
  /\ AdminPageShown(c)
  /\ adminUsers[c].loaded
  /\ badgeDialogUser[c] = None
  /\ u \in Actors
  /\ badgeDialogUser' = [badgeDialogUser EXCEPT ![c] = u]
  /\ badgeType' = [badgeType EXCEPT
       ![c] = IF adminUsers[c].verified_type[u] = Null
              THEN "" ELSE adminUsers[c].verified_type[u]]
  /\ UNCHANGED <<is_verified, verified_type, adminUsers>>
  /\ UNCHANGED <<msgVars, ephVars, viewVars, authVars, readVars, postVars, lateVars>>

\* onOpenChange of the dialog
CloseBadgeDialog(c) ==
  /\ badgeDialogUser[c] # None
  /\ badgeDialogUser' = [badgeDialogUser EXCEPT ![c] = None]
  /\ UNCHANGED <<is_verified, verified_type, adminUsers, badgeType>>
  /\ UNCHANGED <<msgVars, ephVars, viewVars, authVars, readVars, postVars, lateVars>>

\* onValueChange of the select
SetBadgeType(c, v) ==
  /\ badgeDialogUser[c] # None
  /\ v \in BadgeChoices
  /\ badgeType[c] # v
  /\ badgeType' = [badgeType EXCEPT ![c] = v]
  /\ UNCHANGED <<is_verified, verified_type, adminUsers, badgeDialogUser>>
  /\ UNCHANGED <<msgVars, ephVars, viewVars, authVars, readVars, postVars, lateVars>>

\* type: badgeType === 'none' ? null : badgeType
BadgeTypeArg(v) == IF v = "none" THEN Null ELSE v

\* Save Badge: updateBadgeMutation with its onSuccess.  The update reaches
\* the rows the caller may update; a reached row that fails the CHECK makes
\* the statement fail, and then mutationFn throws.
UpdateBadgeMutation(c, ok) ==
  /\ AdminPageShown(c)
  /\ badgeDialogUser[c] # None
  /\ LET type == BadgeTypeArg(badgeType[c])
         rows == {p \in Actors : p = badgeDialogUser[c] /\ ProfilesUpdatePolicy(c, p)}
         error == ~ok \/ (rows # {} /\ ~VerifiedTypeCheck(type))
     IN IF error
        THEN UNCHANGED <<is_verified, verified_type, badgeDialogUser, badgeType>>
        ELSE /\ is_verified' = [p \in Actors |->
                                  IF p \in rows THEN Truthy(type) ELSE is_verified[p]]
             /\ verified_type' = [p \in Actors |->
                                    IF p \in rows THEN type ELSE verified_type[p]]
             /\ badgeDialogUser' = [badgeDialogUser EXCEPT ![c] = None]
             /\ badgeType' = [badgeType EXCEPT ![c] = ""]
  /\ UNCHANGED adminUsers
  /\ UNCHANGED <<msgVars, ephVars, viewVars, authVars, readVars, postVars, lateVars>>

\* ----------------------------------------------------------------- PostCard
\* the card of each client shows this post
ShownPost == CHOOSE post \in posts : TRUE

IdleLike == [status |-> "idle", wasLiked |-> FALSE, wasCount |-> 0, refused |-> FALSE]

IdleSave == [status |-> "idle", wasSaved |-> FALSE, refused |-> FALSE]

LikeRow(c) == [post_id |-> ShownPost.id, profile_id |-> profile[c]]

\* policies "Users can like posts" / "Users can unlike posts", and the same
\* pair on post_saves: profile_id = get_my_profile_id()
PostWritePolicy(c, row) == row.profile_id = get_my_profile_id(c)

LikesCount == Cardinality({row \in post_likes : row.post_id = ShownPost.id})

\* the feed query is answered and the card is mounted on its row:
\* useState(post.is_liked), useState(post.likes_count), useState(post.is_saved)
MountPostCard(c) ==
  /\ profile[c] # None
  /\ likeMutation[c].status # "pending"
  /\ saveMutation[c].status # "pending"
  /\ localIsLiked' = [localIsLiked EXCEPT ![c] = LikeRow(c) \in post_likes]
  /\ localLikesCount' = [localLikesCount EXCEPT ![c] = LikesCount]
  /\ localIsSaved' = [localIsSaved EXCEPT ![c] = LikeRow(c) \in post_saves]
  /\ likeMutation' = [likeMutation EXCEPT ![c] = IdleLike]
  /\ saveMutation' = [saveMutation EXCEPT ![c] = IdleSave]
  /\ <<localIsLiked'[c], localLikesCount'[c], localIsSaved'[c], likeMutation'[c],
       saveMutation'[c]>>
       # <<localIsLiked[c], localLikesCount[c], localIsSaved[c], likeMutation[c],
           saveMutation[c]>>
  /\ UNCHANGED <<posts, post_likes, post_saves>>
  /\ UNCHANGED <<msgVars, ephVars, viewVars, authVars, readVars, badgeVars, lateVars>>

\* the heart button: likeMutation.mutate() up to the first request (onMutate)
LikeOnMutate(c) ==
  /\ profile[c] # None
  /\ likeMutation[c].status # "pending"
  /\ likeMutation' =
       [likeMutation EXCEPT
          ![c] = [status |-> "pending", wasLiked |-> localIsLiked[c],
                  wasCount |-> localLikesCount[c], refused |-> FALSE]]
  /\ localIsLiked' = [localIsLiked EXCEPT ![c] = ~@]
  /\ localLikesCount' =
       [localLikesCount EXCEPT ![c] = IF localIsLiked[c] THEN @ - 1 ELSE @ + 1]
  /\ UNCHANGED <<posts, post_likes, post_saves, localIsSaved, saveMutation>>
  /\ UNCHANGED <<msgVars, ephVars, viewVars, authVars, readVars, badgeVars, lateVars>>

\* onError of likeMutation: the values of the render that called mutate
LikeOnError(c) ==
  /\ localIsLiked' = [localIsLiked EXCEPT ![c] = likeMutation[c].wasLiked]
  /\ localLikesCount' = [localLikesCount EXCEPT ![c] = likeMutation[c].wasCount]

\* mutationFn of likeMutation is answered.  The results of the delete, of
\* the insert and of the notification insert are awaited and dropped: a
\* refused request does not make mutationFn throw, so the mutation ends in
\* onSuccess (an invalidation) and onError is not reached.
LikeSettles(c, ok, notifOk) ==
  /\ likeMutation[c].status = "pending"
  /\ LET row == LikeRow(c)
         owner == ShownPost.profile_id
         accepted == ok /\ PostWritePolicy(c, row)
                        /\ (likeMutation[c].wasLiked \/ row \notin post_likes)
     IN /\ post_likes' = IF ~accepted THEN post_likes
                          ELSE IF likeMutation[c].wasLiked
                               THEN post_likes \ {row} ELSE post_likes \cup {row}
        /\ notifications' =
             IF ~likeMutation[c].wasLiked /\ owner # profile[c] /\ notifOk
             THEN notifications \cup
                    {LikeNotification(profile[c], owner, "post", ShownPost.id)}
             ELSE notifications
        /\ likeMutation' = [likeMutation EXCEPT
                              ![c].status = "success", ![c].refused = ~accepted]
  /\ UNCHANGED <<localIsLiked, localLikesCount>>
  /\ UNCHANGED <<posts, post_saves, localIsSaved, saveMutation>>
  /\ UNCHANGED <<now, is_private, follows, close_friends, stories, notes, lastQuery>>
  /\ UNCHANGED <<msgVars, viewVars, authVars, readVars, badgeVars, lateVars>>

\* the bookmark button: saveMutation.mutate() up to the first request
SaveOnMutate(c) ==
  /\ profile[c] # None
  /\ saveMutation[c].status # "pending"
  /\ saveMutation' =
       [saveMutation EXCEPT
          ![c] = [status |-> "pending", wasSaved |-> localIsSaved[c],
                  refused |-> FALSE]]
  /\ localIsSaved' = [localIsSaved EXCEPT ![c] = ~@]
  /\ UNCHANGED <<posts, post_likes, post_saves, localIsLiked, localLikesCount,
                 likeMutation>>
  /\ UNCHANGED <<msgVars, ephVars, viewVars, authVars, readVars, badgeVars, lateVars>>

\* onError of saveMutation
SaveOnError(c) ==
  localIsSaved' = [localIsSaved EXCEPT ![c] = saveMutation[c].wasSaved]

\* mutationFn of saveMutation is answered; as for likes, the result is dropped
SaveSettles(c, ok) ==
  /\ saveMutation[c].status = "pending"
  /\ LET row == LikeRow(c)
         accepted == ok /\ PostWritePolicy(c, row)
                        /\ (saveMutation[c].wasSaved \/ row \notin post_saves)
     IN /\ post_saves' = IF ~accepted THEN post_saves
                          ELSE IF saveMutation[c].wasSaved
                               THEN post_saves \ {row} ELSE post_saves \cup {row}
        /\ saveMutation' = [saveMutation EXCEPT
                              ![c].status = "success", ![c].refused = ~accepted]
  /\ UNCHANGED localIsSaved
  /\ UNCHANGED <<posts, post_likes, localIsLiked, localLikesCount, likeMutation>>
  /\ UNCHANGED <<msgVars, ephVars, viewVars, authVars, readVars, badgeVars, lateVars>>

\* --------------------------------------------------------------- StoriesBar
\* queryFn of the stories query from its answers on: `data` is the answer of
\* the stories select (ordered by created_at ascending), viewedIds the
\* story_id set of the viewer's story_views rows.
MaxStories == 3

\* the viewer and the authors whose stories the viewer is served
Viewer == "A"

StoryAuthors == {"A", "B", "C"}

\* created_at of a served story
Times == 1..2

Last(seq) == seq[Len(seq)]

\* answers of .order('created_at', { ascending: true }): the i-th row has id i
Ascending(seq) ==
  \A i \in 1..Len(seq) - 1 : seq[i].created_at <= seq[i + 1].created_at

StoriesData ==
  {seq \in UNION {[1..n -> [id : 1..MaxStories, profile_id : StoryAuthors,
                             created_at : Times]] : n \in 0..MaxStories} :
     /\ \A i \in 1..Len(seq) : seq[i].id = i
     /\ Ascending(seq)}

\* the position of the group of an author in a list of groups, 0 when none
RECURSIVE IndexOf(_, _, _)
IndexOf(groups, author, i) ==
  IF i > Len(groups) THEN 0
  ELSE IF groups[i].profile = author THEN i ELSE IndexOf(groups, author, i + 1)

\* data.forEach(story => ...): a new group at the end for an author seen for
\* the first time (Object.values lists the keys in insertion order), the
\* story pushed to its group, hasUnviewed set when the story is not viewed
RECURSIVE GroupByProfile(_, _, _, _)
GroupByProfile(data, viewed, i, grouped) ==
  IF i > Len(data) THEN grouped
  ELSE LET story == data[i]
           k == IndexOf(grouped, story.profile_id, 1)
           with == IF k # 0 THEN grouped
                   ELSE Append(grouped, [profile |-> story.profile_id,
                                         stories |-> <<>>, hasUnviewed |-> FALSE])
           j == IF k # 0 THEN k ELSE Len(with)
       IN GroupByProfile(data, viewed, i + 1,
            [with EXCEPT
               ![j].stories = Append(@, story),
               ![j].hasUnviewed = @ \/ story.id \notin viewed])

\* mutant: the groups are compared by their newest story, oldest first
Compare_OldestFirst(a, b) ==
  IF a.hasUnviewed # b.hasUnviewed
  THEN IF a.hasUnviewed THEN -1 ELSE 1
  ELSE Last(a.stories).created_at - Last(b.stories).created_at

\* the comparator of the sort: unviewed first, then bTime - aTime over the
\* last story of each group
Compare(a, b) ==
  IF a.hasUnviewed # b.hasUnviewed
  THEN IF a.hasUnviewed THEN -1 ELSE 1
  ELSE Last(b.stories).created_at - Last(a.stories).created_at

\* g, which stands before the groups of `sorted` in the input, is put in
\* front of the first group it does not come behind: Array.prototype.sort
\* is stable, groups that compare equal keep their order
RECURSIVE InsertGroup(_, _)
InsertGroup(sorted, g) ==
  IF sorted = <<>> THEN <<g>>
  ELSE IF Compare(g, Head(sorted)) <= 0
       THEN <<g>> \o sorted
       ELSE <<Head(sorted)>> \o InsertGroup(Tail(sorted), g)

\* Object.values(grouped).sort(...) from the i-th group on
RECURSIVE SortGroups(_, _)
SortGroups(groups, i) ==
  IF i > Len(groups) THEN <<>>
  ELSE InsertGroup(SortGroups(groups, i + 1), groups[i])

\* the stories query has not answered yet
NotFetched(data) ==
  [data |-> data, viewedIds |-> {}, groupedStories |-> <<>>, fetched |-> FALSE]

\* queryFn resolves (first fetch, refetchInterval, invalidation): the
\* grouping and the sort over the answers
GroupStories(c) ==
  /\ c = Viewer
  /\ LET result == SortGroups(GroupByProfile(storiesBar.data,
                                              storiesBar.viewedIds, 1, <<>>), 1)
     IN /\ ~storiesBar.fetched \/ storiesBar.groupedStories # result
        /\ storiesBar' = [storiesBar EXCEPT !.groupedStories = result,
                                            !.fetched = TRUE]
  /\ UNCHANGED <<msgVars, ephVars, viewVars, authVars, readVars, badgeVars,
                 postVars, raceVars, toastVars, rtVars, dialogVars, playVars>>

\* the effect of StoryViewer on a story of somebody else: a story_views row
\* of the viewer for it
ViewStory(c, id) ==
  /\ c = Viewer
  /\ storiesBar.fetched
  /\ \E i \in 1..Len(storiesBar.data) :
        /\ storiesBar.data[i].id = id
        /\ storiesBar.data[i].profile_id # c
  /\ id \notin storiesBar.viewedIds
  /\ storiesBar' = [storiesBar EXCEPT !.viewedIds = @ \cup {id}]
  /\ UNCHANGED <<msgVars, ephVars, viewVars, authVars, readVars, badgeVars,
                 postVars, raceVars, toastVars, rtVars, dialogVars, playVars>>

\* -------------------------------------------------------------- StoryViewer
\* the viewer of the group StoriesBar opened, for the viewer's client.
\* Updates made inside the interval callback are batched: the render that
\* shows them is a later task, and a click may be handled before it. A click
\* renders, and runs the effects of that render, before it returns.
Duration == 5000

Interval == 50

Increment == (Interval * 100) \div Duration

\* no interval is running
NoTimer == 0 - 1

\* viewingStories is null
NoViewer ==
  [stories |-> 0, currentIndex |-> 0, progress |-> 0, rendered |-> 0,
   timer |-> NoTimer]

\* a render of StoryViewer and the progress effect after it: when
\* currentIndex is not the one the effect last ran for, the cleanup clears
\* the interval, progress restarts and a new interval closes over currentIndex
Rendered(v) ==
  IF v.timer = v.currentIndex THEN [v EXCEPT !.rendered = v.currentIndex]
  ELSE [v EXCEPT !.rendered = v.currentIndex, !.timer = v.currentIndex,
                 !.progress = 0]

\* a click on a group of the bar: setViewingStories(group), StoryViewer
\* mounts on the first story
OpenViewer(c, g) ==
  /\ c = Viewer
  /\ storiesBar.fetched
  /\ viewingStories.stories = 0
  /\ g \in 1..Len(storiesBar.groupedStories)
  /\ viewingStories' =
       Rendered([NoViewer EXCEPT
                   !.stories = Len(storiesBar.groupedStories[g].stories)])
  /\ UNCHANGED <<msgVars, ephVars, viewVars, authVars, readVars, badgeVars,
                 postVars, raceVars, toastVars, rtVars, barVars, dialogVars>>

\* the x of the viewer: onClose, StoryViewer unmounts and the cleanup clears
\* the interval
CloseViewer(c) ==
  /\ c = Viewer
  /\ viewingStories.stories # 0
  /\ viewingStories' = NoViewer
  /\ UNCHANGED <<msgVars, ephVars, viewVars, authVars, readVars, badgeVars,
                 postVars, raceVars, toastVars, rtVars, barVars, dialogVars>>

\* the interval callback: the updater of setProgress, with the currentIndex
\* its effect closed over. The state it sets is not rendered yet.
ProgressTick(c) ==
  /\ c = Viewer
  /\ viewingStories.stories # 0
  /\ viewingStories.timer # NoTimer
  /\ viewingStories.rendered = viewingStories.currentIndex
  /\ viewingStories' =
       IF viewingStories.progress >= 100
       THEN IF viewingStories.timer < viewingStories.stories - 1
            THEN [viewingStories EXCEPT !.currentIndex = @ + 1, !.progress = 0]
            ELSE NoViewer
       ELSE [viewingStories EXCEPT !.progress = @ + Increment]
  /\ UNCHANGED <<msgVars, ephVars, viewVars, authVars, readVars, badgeVars,
                 postVars, raceVars, toastVars, rtVars, barVars, dialogVars>>

\* the render React scheduled for the updates of the interval callback
Render(c) ==
  /\ c = Viewer
  /\ viewingStories.stories # 0
  /\ viewingStories.rendered # viewingStories.currentIndex
  /\ viewingStories' = Rendered(viewingStories)
  /\ UNCHANGED <<msgVars, ephVars, viewVars, authVars, readVars, badgeVars,
                 postVars, raceVars, toastVars, rtVars, barVars, dialogVars>>

\* a click on the right half: goNext of the last render
goNext(c) ==
  /\ c = Viewer
  /\ viewingStories.stories # 0
  /\ viewingStories' =
       IF viewingStories.rendered < viewingStories.stories - 1
       THEN Rendered([viewingStories EXCEPT !.currentIndex = @ + 1])
       ELSE NoViewer
  /\ UNCHANGED <<msgVars, ephVars, viewVars, authVars, readVars, badgeVars,
                 postVars, raceVars, toastVars, rtVars, barVars, dialogVars>>

\* a click on the left half: goPrev of the last render
goPrev(c) ==
  /\ c = Viewer
  /\ viewingStories.stories # 0
  /\ viewingStories.rendered > 0
  /\ viewingStories' = Rendered([viewingStories EXCEPT !.currentIndex = @ - 1])
  /\ UNCHANGED <<msgVars, ephVars, viewVars, authVars, readVars, badgeVars,
                 postVars, raceVars, toastVars, rtVars, barVars, dialogVars>>

\* -------------------------------------------- CreateStoryDialog (file upload)
\* the dialog as StoriesBar mounts it: closed, nothing selected
ClosedDialog ==
  [open |-> FALSE, selectedFile |-> FALSE, isCloseFriendsOnly |-> FALSE,
   isUploading |-> FALSE, status |-> "idle"]

\* everything of the state but the dialog and what its mutation writes
DialogFrame ==
  /\ UNCHANGED <<msgVars, viewVars, authVars, readVars, badgeVars, postVars,
                 raceVars, rtVars, barVars, playVars>>
  /\ UNCHANGED <<now, is_private, follows, close_friends, notes, notifications,
                 lastQuery>>

\* the + of StoriesBar: setCreateOpen(true)
OpenCreateStory(c) ==
  /\ profile[c] # None
  /\ ~createStoryDialog[c].open
  /\ createStoryDialog' = [createStoryDialog EXCEPT ![c].open = TRUE]
  /\ UNCHANGED <<stories, toast>>
  /\ DialogFrame

\* handleFileSelect with a file, and the x on the preview
SetSelectedFile(c, file) ==
  /\ createStoryDialog[c].open
  /\ createStoryDialog[c].selectedFile # file
  /\ createStoryDialog' = [createStoryDialog EXCEPT ![c].selectedFile = file]
  /\ UNCHANGED <<stories, toast>>
  /\ DialogFrame

\* the Close Friends switch
SetIsCloseFriendsOnly(c, cf) ==
  /\ createStoryDialog[c].open
  /\ createStoryDialog[c].isCloseFriendsOnly # cf
  /\ createStoryDialog' = [createStoryDialog EXCEPT ![c].isCloseFriendsOnly = cf]
  /\ UNCHANGED <<stories, toast>>
  /\ DialogFrame

\* handleClose as the render with the state at hand defines it
HandleClose(c) ==
  IF ~createStoryDialog[c].isUploading
  THEN createStoryDialog' =
         [createStoryDialog EXCEPT
            ![c].open = FALSE, ![c].selectedFile = FALSE,
            ![c].isCloseFriendsOnly = FALSE, ![c].isUploading = FALSE]
  ELSE UNCHANGED createStoryDialog

\* the dialog is dismissed (onOpenChange of Dialog is handleClose)
DismissDialog(c) ==
  /\ createStoryDialog[c].open
  /\ ~createStoryDialog[c].isUploading
  /\ HandleClose(c)
  /\ UNCHANGED <<stories, toast>>
  /\ DialogFrame

\* Share to Story (disabled without a file and while uploading): mutationFn
\* up to the upload, setIsUploading(true) included
ShareToStory(c) ==
  /\ createStoryDialog[c].open
  /\ createStoryDialog[c].selectedFile
  /\ ~createStoryDialog[c].isUploading
  /\ profile[c] # None /\ user[c] # None
  /\ createStoryDialog[c].status # "pending"
  /\ createStoryDialog' =
       [createStoryDialog EXCEPT ![c].isUploading = TRUE, ![c].status = "pending"]
  /\ UNCHANGED <<stories, toast>>
  /\ DialogFrame

\* onError of createStoryMutation
UploadOnError(c) ==
  /\ createStoryDialog' =
       [createStoryDialog EXCEPT ![c].isUploading = FALSE, ![c].status = "error"]
  /\ Toast(c, "Failed to share story")

\* onSuccess of createStoryMutation: invalidate, handleClose(), toast.  The
\* handlers of a pending mutation are those of the latest render, and that
\* render has seen setIsUploading(true).
UploadOnSuccess(c) ==
  /\ createStoryDialog' =
       [createStoryDialog EXCEPT
          ![c].open = @ /\ createStoryDialog[c].isUploading,
          ![c].selectedFile = @ /\ createStoryDialog[c].isUploading,
          ![c].isCloseFriendsOnly = @ /\ createStoryDialog[c].isUploading,
          ![c].status = "success"]
  /\ Toast(c, "Story shared!")

\* the rest of mutationFn: the upload to storage and the insert of the story
\* are answered; either may fail
UploadSettles(c, uploadOk, insertOk) ==
  /\ createStoryDialog[c].status = "pending"
  /\ LET row == [id |-> NextStoryId, profile_id |-> profile[c],
                 is_close_friends_only |-> createStoryDialog[c].isCloseFriendsOnly,
                 created_at |-> now, expires_at |-> now + TTL]
     IN IF uploadOk /\ insertOk /\ profile[c] = get_my_profile_id(c)
        THEN /\ Posts < MaxPosts
             /\ stories' = stories \cup {row}
             /\ UploadOnSuccess(c)
        ELSE /\ UNCHANGED stories
             /\ UploadOnError(c)
  /\ DialogFrame

\* ---------------------------------------------------------- specifications
InitMsg ==
  /\ conversations = {}
  /\ conversation_participants = {}
  /\ messages = {}
  /\ createConversationMutation = [c \in Actors |-> IdleCreate]
  /\ overlapped = FALSE
  /\ conversationId = [c \in Actors |-> 0]
  /\ message = [c \in Actors |-> <<>>]
  /\ sendMessageMutation = [c \in Actors |-> IdleSend]
  /\ blankSubmitted = FALSE
  /\ conversationsData = [c \in Actors |-> [polled |-> FALSE, rows |-> {}]]
  /\ messagesData = [c \in Actors |-> {}]
  /\ markedRead = {}

\* no relation, no story, no note yet; every profile starts public
\* (is_private BOOLEAN DEFAULT false)
InitEmpty ==
  /\ now = 0
  /\ follows = {}
  /\ close_friends = {}
  /\ stories = {}
  /\ notes = {}
  /\ notifications = {}
  /\ lastQuery = NoQuery

\* no StoryViewer open, NotesBar not loaded
InitViews ==
  /\ story_views = {}
  /\ story_likes = {}
  /\ note_likes = {}
  /\ storyViewer = [c \in Actors |-> ClosedViewer]
  /\ markSeen = [c \in Actors |-> [calls |-> 0, error |-> FALSE]]
  /\ notesData = [c \in Actors |-> {}]
  /\ selectedNote = [c \in Actors |-> NoNote]
  /\ likeRun = [c \in Actors |-> NoRun]

\* the badge columns after the migrations (is_verified DEFAULT false, the
\* admin account set to a blue badge), no admin page loaded
InitBadge ==
  /\ is_verified = [p \in Actors |-> HasAdminRole(p)]
  /\ verified_type = [p \in Actors |-> IF HasAdminRole(p) THEN "blue" ELSE Null]
  /\ adminUsers = [c \in Actors |-> NotLoaded]
  /\ badgeDialogUser = [c \in Actors |-> None]
  /\ badgeType = [c \in Actors |-> ""]

\* one post, of actor a, no like and no save; every card as it mounts on
\* that row
InitPosts(a) ==
  /\ posts = {[id |-> 1, profile_id |-> a]}
  /\ post_likes = {}
  /\ post_saves = {}
  /\ localIsLiked = [c \in Actors |-> FALSE]
  /\ localLikesCount = [c \in Actors |-> 0]
  /\ localIsSaved = [c \in Actors |-> FALSE]
  /\ likeMutation = [c \in Actors |-> IdleLike]
  /\ saveMutation = [c \in Actors |-> IdleSave]

\* nothing has happened yet, every dialog is closed
InitIdle ==
  /\ raceIds = {}
  /\ toast = [c \in Actors |-> NoToast]
  /\ channels = [c \in Actors |-> {}]
  /\ subscribedFor = [c \in Actors |-> 0]
  /\ createStoryDialog = [c \in Actors |-> ClosedDialog]
  /\ viewingStories = NoViewer

InitLate ==
  /\ InitIdle
  /\ storiesBar = NotFetched(<<>>)

\* nothing but the datastore defaults outside the part a specification is about
InitRest == InitBadge /\ InitPosts("A") /\ InitLate

\* every client is signed in as its actor, the profile is loaded, no
\* request is in flight
InitSignedIn(path) ==
  /\ user = [c \in Actors |-> c]
  /\ profile = [c \in Actors |-> c]
  /\ realProfile = [c \in Actors |-> c]
  /\ impersonatedProfile = [c \in Actors |-> None]
  /\ isLoading = [c \in Actors |-> FALSE]
  /\ isAdmin = [c \in Actors |-> HasAdminRole(c)]
  /\ pathname = [c \in Actors |-> path]
  /\ pending = [c \in Actors |-> {}]
  /\ redirected = [c \in Actors |-> FALSE]

\* messaging
Init ==
  /\ InitMsg
  /\ InitEmpty
  /\ is_private = [c \in Actors |-> FALSE]
  /\ InitViews
  /\ InitRest
  /\ InitSignedIn("/messages")

NextMsg ==
  \/ \E c \in Actors, o \in Actors : HandleNext(c, o)
  \/ \E c \in Actors, ok \in BOOLEAN : InsertConversation(c, ok)
  \/ \E c \in Actors, ok \in BOOLEAN, kept \in BOOLEAN : InsertParticipants(c, ok, kept)
  \/ \E c \in Actors, text \in Strings : SetMessage(c, text)
  \/ \E c \in Actors : HandleSend(c)
  \/ \E c \in Actors, touchOk \in BOOLEAN : SendSucceeds(c, touchOk)
  \/ \E c \in Actors : SendFails(c)
  \/ \E c \in Actors : PollConversations(c)

Next == NextMsg
Spec == Init /\ [][Next]_vars

\* visibility of stories and notes.  No client code writes
\* profiles.is_private (the switch of the settings page has no handler), so
\* the privacy of each profile is fixed from the start.
InitEph ==
  /\ InitMsg
  /\ InitEmpty
  /\ is_private \in [Actors -> BOOLEAN]
  /\ InitViews
  /\ InitRest
  /\ InitSignedIn("/")

NextEph ==
  \/ \E t \in Instants : Tick(t)
  \/ \E c \in Actors, cf \in BOOLEAN : CreateStory(c, cf)
  \/ \E c \in Actors : CreateNote(c)
  \/ \E c \in Actors, o \in Actors, isFollowing \in BOOLEAN :
        FollowMutation(c, o, isFollowing)
  \/ \E c \in Actors, f \in Actors, isCloseFriendNow \in BOOLEAN :
        ToggleCloseFriendMutation(c, f, isCloseFriendNow)
  \/ \E c \in Actors : FetchStories(c)
  \/ \E c \in Actors : FetchNotes(c)
  \/ \E c \in Actors : FetchMyNote(c)

SpecEph == InitEph /\ [][NextEph]_vars

\* viewing and liking: one actor has posted a story and a note, the other
\* one follows them
InitView ==
  /\ InitMsg
  /\ now = 0
  /\ is_private = [c \in Actors |-> FALSE]
  /\ close_friends = {}
  /\ lastQuery = NoQuery
  /\ \E a \in Actors, b \in Actors :
        /\ a # b
        /\ follows = {[follower_id |-> b, following_id |-> a]}
        /\ notifications = {FollowNotification(b, a)}
        /\ stories = {[id |-> 1, profile_id |-> a, is_close_friends_only |-> FALSE,
                       created_at |-> 0, expires_at |-> TTL]}
        /\ notes = {[id |-> 1, profile_id |-> a,
                     created_at |-> 0, expires_at |-> TTL]}
  /\ InitViews
  /\ InitRest
  /\ InitSignedIn("/")

NextView ==
  \/ \E c \in Actors, sid \in PostIds, reached \in BOOLEAN : OpenStory(c, sid, reached)
  \/ \E c \in Actors : CloseStory(c)
  \/ \E c \in Actors, ok \in BOOLEAN, notifOk \in BOOLEAN :
        StoryLikeMutation(c, ok, notifOk)
  \/ \E c \in Actors : RefetchNotes(c)
  \/ \E c \in Actors, nid \in PostIds : SelectNote(c, nid)
  \/ \E c \in Actors : CloseNote(c)
  \/ \E c \in Actors, ok \in BOOLEAN, notifOk \in BOOLEAN :
        NoteLikeMutation(c, ok, notifOk)

SpecView == InitView /\ [][NextView]_vars

\* ================================================================= claims

\* the admin page of every client, signed in and loaded
InitBadges ==
  /\ InitMsg
  /\ InitEmpty
  /\ is_private = [c \in Actors |-> FALSE]
  /\ InitViews
  /\ InitRest
  /\ InitSignedIn("/admin")

NextBadges ==
  \/ \E c \in Actors : FetchAdminUsers(c)
  \/ \E c \in Actors, u \in Actors : OpenBadgeDialog(c, u)
  \/ \E c \in Actors : CloseBadgeDialog(c)
  \/ \E c \in Actors, v \in BadgeChoices : SetBadgeType(c, v)
  \/ \E c \in Actors, ok \in BOOLEAN : UpdateBadgeMutation(c, ok)

SpecBadges == InitBadges /\ [][NextBadges]_vars

\* the post card of every client, signed in and loaded, on a post of any
\* actor
NextPosts ==
  \/ \E c \in Actors : MountPostCard(c)
  \/ \E c \in Actors : LikeOnMutate(c)
  \/ \E c \in Actors, ok \in BOOLEAN, notifOk \in BOOLEAN : LikeSettles(c, ok, notifOk)
  \/ \E c \in Actors : SaveOnMutate(c)
  \/ \E c \in Actors, ok \in BOOLEAN : SaveSettles(c, ok)

InitPostCards ==
  /\ InitMsg
  /\ InitEmpty
  /\ is_private = [c \in Actors |-> FALSE]
  /\ InitViews
  /\ InitBadge
  /\ \E a \in Actors : InitPosts(a)
  /\ InitLate
  /\ InitSignedIn("/")

SpecPosts == InitPostCards /\ [][NextPosts]_vars

\* the session of one browser: the page is being loaded at any address, the
\* stored session has not been read yet
Browsers == {"A"}

InitAuth ==
  /\ InitMsg
  /\ InitEmpty
  /\ is_private = [c \in Actors |-> FALSE]
  /\ InitViews
  /\ InitRest
  /\ user = [c \in Actors |-> None]
  /\ profile = [c \in Actors |-> None]
  /\ realProfile = [c \in Actors |-> None]
  /\ impersonatedProfile = [c \in Actors |-> None]
  /\ isLoading = [c \in Actors |-> TRUE]
  /\ isAdmin = [c \in Actors |-> FALSE]
  /\ \E p \in Paths : pathname = [c \in Actors |-> IF c \in Browsers THEN p ELSE "/"]
  /\ pending = [c \in Actors |-> {}]
  /\ redirected = [c \in Actors |-> FALSE]

NextAuth ==
  \/ \E c \in Browsers, u \in Actors \cup {None} : GetSessionResolves(c, u)
  \/ \E c \in Browsers, u \in Actors : SignIn(c, u)
  \/ \E c \in Browsers : AuthStateChange(c)
  \/ \E c \in Browsers : SessionEnds(c)
  \/ \E c \in Browsers : SignOut(c)
  \/ \E c \in Browsers : RefreshProfile(c)
  \/ \E c \in Browsers, u \in Actors, ok \in BOOLEAN : FetchProfileResponse(c, u, ok)
  \/ \E c \in Browsers, u \in Actors, ok \in BOOLEAN : CheckAdminRoleResponse(c, u, ok)
  \/ \E c \in Browsers : RedirectEffect(c)
  \/ \E c \in Browsers, path \in Paths : Navigate(c, path)
  \/ \E c \in Browsers : AdminPageRedirect(c)
  \/ \E c \in Browsers, t \in Actors : HandleImpersonate(c, t)
  \/ \E c \in Browsers : ExitImpersonation(c)

SpecAuth == InitAuth /\ [][NextAuth]_vars

\* React runs an effect after every render that changed one of its
\* dependencies: the redirect is not postponed for ever
SpecAuthLive ==
  InitAuth /\ [][NextAuth]_vars /\ WF_vars(\E c \in Browsers : RedirectEffect(c))

\* one browser from page load on: its sessions, its messages page and the
\* read receipts of its ChatArea
InitRead ==
  /\ InitMsg
  /\ InitEmpty
  /\ is_private = [c \in Actors |-> FALSE]
  /\ InitViews
  /\ InitRest
  /\ user = [c \in Actors |-> None]
  /\ profile = [c \in Actors |-> None]
  /\ realProfile = [c \in Actors |-> None]
  /\ impersonatedProfile = [c \in Actors |-> None]
  /\ isLoading = [c \in Actors |-> TRUE]
  /\ isAdmin = [c \in Actors |-> FALSE]
  /\ pathname = [c \in Actors |-> "/"]
  /\ pending = [c \in Actors |-> {}]
  /\ redirected = [c \in Actors |-> FALSE]

\* the pages the user of this browser goes to, and what they type
ReadPaths == {"/messages", "/admin"}

ReadStrings == {<<" ", "x", " ">>}

\* the answers to the two inserts of a new conversation on the way to a
\* message: both go through
ReadInserts == {TRUE}

NextRead ==
  \/ \E c \in Browsers, u \in Actors \cup {None} : GetSessionResolves(c, u)
  \/ \E c \in Browsers, u \in Actors : SignIn(c, u)
  \/ \E c \in Browsers : SignOut(c)
  \/ \E c \in Browsers, u \in Actors, ok \in BOOLEAN : FetchProfileResponse(c, u, ok)
  \/ \E c \in Browsers, u \in Actors, ok \in BOOLEAN : CheckAdminRoleResponse(c, u, ok)
  \/ \E c \in Browsers : RedirectEffect(c)
  \/ \E c \in Browsers, path \in ReadPaths : Navigate(c, path)
  \/ \E c \in Browsers : AdminPageRedirect(c)
  \/ \E c \in Browsers, t \in Actors : HandleImpersonate(c, t)
  \/ \E c \in Browsers : ExitImpersonation(c)
  \/ \E c \in Browsers, o \in Actors : HandleNext(c, o)
  \/ \E c \in Browsers, ok \in ReadInserts : InsertConversation(c, ok)
  \/ \E c \in Browsers, ok \in ReadInserts, kept \in BOOLEAN : InsertParticipants(c, ok, kept)
  \/ \E c \in Browsers, text \in ReadStrings : SetMessage(c, text)
  \/ \E c \in Browsers : HandleSend(c)
  \/ \E c \in Browsers, touchOk \in BOOLEAN : SendSucceeds(c, touchOk)
  \/ \E c \in Browsers : SendFails(c)
  \/ \E c \in Browsers : FetchMessages(c)
  \/ \E c \in Browsers, ok \in BOOLEAN : MarkRead(c, ok)

SpecRead == InitRead /\ [][NextRead]_vars

\* the writers of public.messages in one browser that is on the messages
\* page, signed in and loaded; SpecRead reaches these states, among them the
\* one where an answer to the profile request of the session before is
\* still on its way
InitReceipts ==
  /\ InitMsg
  /\ InitEmpty
  /\ is_private = [c \in Actors |-> FALSE]
  /\ InitViews
  /\ InitRest
  /\ user = [c \in Actors |-> c]
  /\ profile = [c \in Actors |-> c]
  /\ realProfile = [c \in Actors |-> c]
  /\ impersonatedProfile = [c \in Actors |-> None]
  /\ isLoading = [c \in Actors |-> FALSE]
  /\ isAdmin = [c \in Actors |-> FALSE]
  /\ pathname = [c \in Actors |-> "/messages"]
  /\ \E late \in SUBSET {Request("fetchProfile", u) : u \in Actors \ Browsers} :
        pending = [c \in Actors |-> IF c \in Browsers THEN late ELSE {}]
  /\ redirected = [c \in Actors |-> FALSE]

\* the messages page and the page the user leaves it for
ReceiptPaths == {"/messages", "/"}

NextReceipts ==
  \/ \E c \in Browsers, o \in Actors : HandleNext(c, o)
  \/ \E c \in Browsers, ok \in BOOLEAN : InsertConversation(c, ok)
  \/ \E c \in Browsers, ok \in BOOLEAN, kept \in BOOLEAN : InsertParticipants(c, ok, kept)
  \/ \E c \in Browsers, text \in Strings : SetMessage(c, text)
  \/ \E c \in Browsers : HandleSend(c)
  \/ \E c \in Browsers, touchOk \in BOOLEAN : SendSucceeds(c, touchOk)
  \/ \E c \in Browsers : SendFails(c)
  \/ \E c \in Browsers : FetchMessages(c)
  \/ \E c \in Browsers, ok \in BOOLEAN : MarkRead(c, ok)
  \/ \E c \in Browsers : RefreshProfile(c)
  \/ \E c \in Browsers, u \in Actors, ok \in BOOLEAN : FetchProfileResponse(c, u, ok)
  \/ \E c \in Browsers : SubscriptionEffect(c)
  \/ \E c \in Browsers, path \in ReceiptPaths : Navigate(c, path)

SpecReceipts == InitReceipts /\ [][NextReceipts]_vars


\* StoriesBar of one viewer over every answer of the stories select
InitStories ==
  /\ InitMsg
  /\ InitEmpty
  /\ is_private = [c \in Actors |-> FALSE]
  /\ InitViews
  /\ InitBadge
  /\ InitPosts("A")
  /\ InitSignedIn("/")
  /\ InitIdle
  /\ \E data \in StoriesData : storiesBar = NotFetched(data)

NextStories ==
  \/ \E c \in {Viewer} : GroupStories(c)
  \/ \E c \in {Viewer}, id \in 1..MaxStories : ViewStory(c, id)

SpecStories == InitStories /\ [][NextStories]_vars

\* StoryViewer over the groups of a fetched bar
InitPlayback ==
  /\ InitMsg
  /\ InitEmpty
  /\ is_private = [c \in Actors |-> FALSE]
  /\ InitViews
  /\ InitBadge
  /\ InitPosts("A")
  /\ InitSignedIn("/")
  /\ InitIdle
  /\ \E data \in StoriesData :
        /\ Len(data) = MaxStories
        /\ \A i \in 1..Len(data) : data[i].created_at = 1
        /\ storiesBar =
             [NotFetched(data) EXCEPT
                !.groupedStories =
                   SortGroups(GroupByProfile(data, {}, 1, <<>>), 1),
                !.fetched = TRUE]

NextPlayback ==
  \/ \E c \in {Viewer}, g \in 1..MaxStories : OpenViewer(c, g)
  \/ \E c \in {Viewer} : CloseViewer(c)
  \/ \E c \in {Viewer} : ProgressTick(c)
  \/ \E c \in {Viewer} : Render(c)
  \/ \E c \in {Viewer} : goNext(c)
  \/ \E c \in {Viewer} : goPrev(c)

SpecPlayback == InitPlayback /\ [][NextPlayback]_vars

\* the upload dialog of every client
InitUpload ==
  /\ InitMsg
  /\ InitEmpty
  /\ is_private = [c \in Actors |-> FALSE]
  /\ InitViews
  /\ InitRest
  /\ InitSignedIn("/")

NextUpload ==
  \/ \E c \in Actors : OpenCreateStory(c)
  \/ \E c \in Actors, file \in BOOLEAN : SetSelectedFile(c, file)
  \/ \E c \in Actors, cf \in BOOLEAN : SetIsCloseFriendsOnly(c, cf)
  \/ \E c \in Actors : DismissDialog(c)
  \/ \E c \in Actors : ShareToStory(c)
  \/ \E c \in Actors, uploadOk \in BOOLEAN, insertOk \in BOOLEAN :
        UploadSettles(c, uploadOk, insertOk)

SpecUpload == InitUpload /\ [][NextUpload]_vars

\* every request is answered in the end
SpecUploadLive ==
  /\ SpecUpload
  /\ \A c \in Actors :
        WF_vars(\E uploadOk \in BOOLEAN, insertOk \in BOOLEAN :
                  UploadSettles(c, uploadOk, insertOk))

\* C1 (as claimed): find-or-create calls for one pair that do not overlap in
\* time all return the same conversation, so at most one conversation has
\* both actors as participants.
C1_SequentialFindOrCreateIsUnique ==
  ~overlapped =>
     \A a \in Actors, b \in Actors :
        a # b => Cardinality(ConversationsOf(a, b)) <= 1

\* C2 (as claimed): after a single find-or-create of a for b and one message
\* of a in that conversation, the conversation list of b, once polled and up
\* to date, shows exactly one conversation whose other participant is a, and
\* it contains that message.
C2_RecipientListShowsConversation ==
  \A a \in Actors, b \in Actors :
     (/\ a # b
      /\ Cardinality(ConversationsOf(a, b)) = 1
      /\ \E m \in messages :
            /\ m.sender_id = a
            /\ ConversationsOf(a, b) = {m.conversation_id}
            /\ \A n \in messages : n.conversation_id = m.conversation_id => n = m
      /\ conversationsData[b] = [polled |-> TRUE, rows |-> ConversationListQuery(b)])
     => /\ Cardinality({r \in conversationsData[b].rows : r.participant = a}) = 1
        /\ \A r \in conversationsData[b].rows :
              r.participant = a =>
                 /\ ConversationsOf(a, b) = {r.id}
                 /\ \E m \in messages : m.id = r.lastMessage /\ m.sender_id = a

\* C9: every message row has non-empty trimmed content, also after the
\* compose form was submitted with an empty or white-space input.
C9_NoBlankMessage ==
  \A m \in messages : m.content # <<>> /\ Trim(m.content) = m.content

C9_Witness ==
  /\ blankSubmitted
  /\ \E c \in Actors :
        /\ conversationId[c] # 0
        /\ message[c] = <<" ">>
        /\ \E m \in messages : m.sender_id = c /\ m.conversation_id = conversationId[c]

\* C10: the step in which a pending send fails leaves the compose input as
\* it was: an input that still held the submitted text holds it afterwards.
C10_FailedSendKeepsInput ==
  [][\A c \in Actors :
        (sendMessageMutation[c].status = "pending"
         /\ sendMessageMutation'[c].status = "error")
        => /\ message'[c] = message[c]
           /\ (message[c] = sendMessageMutation[c].message
               => message'[c] = sendMessageMutation'[c].message)]_vars

C10_Witness ==
  \E c \in Actors :
     /\ sendMessageMutation[c].status = "error"
     /\ CanSend(sendMessageMutation[c].message)
     /\ message[c] = sendMessageMutation[c].message

\* C3: a story or a note whose expires_at is not after the instant of the
\* query is in the answer of no stories listing, notes listing or own-note
\* query, whoever asks, the author included.
C3_ExpiredNeverListed ==
  /\ lastQuery.queryKey = "stories" =>
        \A s \in stories : s.expires_at <= lastQuery.at => s \notin lastQuery.rows
  /\ lastQuery.queryKey \in {"notes", "my-note"} =>
        \A n \in notes : n.expires_at <= lastQuery.at => n \notin lastQuery.rows

C3_Witness ==
  /\ lastQuery.queryKey = "stories"
  /\ \E s \in stories :
        /\ s.profile_id = lastQuery.viewer
        /\ s.expires_at = lastQuery.at
        /\ s \notin lastQuery.rows

\* C4 (as claimed): a story of a public author posted at T0 is listed for a
\* follower at T0+23h and not at T0+25h, and is never listed for somebody
\* who does not follow the author.
C4_OnlyFollowersSeePublicStory ==
  lastQuery.queryKey = "stories" =>
     \A s \in stories :
        (/\ ~is_private[s.profile_id]
         /\ ~s.is_close_friends_only
         /\ s.profile_id # lastQuery.viewer)
        => IF [follower_id |-> lastQuery.viewer, following_id |-> s.profile_id]
              \in follows
           THEN /\ lastQuery.at = s.created_at + 23 => s \in lastQuery.rows
                /\ lastQuery.at = s.created_at + 25 => s \notin lastQuery.rows
           ELSE s \notin lastQuery.rows

\* C4 (amended): a story of a public author posted at T0 for everybody (not
\* for close friends only) is listed for every other viewer, follower or
\* not, at T0+23h, and for no viewer at T0+25h.
C4_PublicStoryListedForADay ==
  lastQuery.queryKey = "stories" =>
     \A s \in stories :
        (/\ ~is_private[s.profile_id]
         /\ ~s.is_close_friends_only
         /\ s.profile_id # lastQuery.viewer)
        => /\ lastQuery.at = s.created_at + 23 => s \in lastQuery.rows
           /\ lastQuery.at = s.created_at + 25 => s \notin lastQuery.rows

C4_Witness ==
  /\ lastQuery.queryKey = "stories"
  /\ \E s \in stories :
        /\ ~is_private[s.profile_id]
        /\ ~s.is_close_friends_only
        /\ s.profile_id # lastQuery.viewer
        /\ [follower_id |-> lastQuery.viewer, following_id |-> s.profile_id]
              \notin follows
        /\ lastQuery.at = s.created_at + 23
        /\ s \in lastQuery.rows

C6_CloseFriendsStoryListedIffEdge ==
  lastQuery.queryKey = "stories" =>
     \A s \in stories :
        (/\ s.is_close_friends_only
         /\ s.profile_id # lastQuery.viewer
         /\ NotExpired(s, lastQuery.at)
         /\ [follower_id |-> lastQuery.viewer, following_id |-> s.profile_id]
               \in follows)
        => (s \in lastQuery.rows
            <=> [user_id |-> s.profile_id, friend_id |-> lastQuery.viewer]
                   \in close_friends)

\* C7 (as claimed): once the backend has answered two mark-viewed requests
\* of a viewer for a story, the table holds the one row of the first request
\* and the second answer is not an error.
C7_SecondMarkSeenIsSilent ==
  \A c \in Actors :
     markSeen[c].calls = 2
     => /\ ~markSeen[c].error
        /\ \E s \in stories : [story_id |-> s.id, viewer_id |-> c] \in story_views

\* C8 (as claimed): after two like toggles made one after the other on a
\* story, or on a note, that started not liked, the local liked state is
\* false and the like table has no row of the viewer for it.
C8_DoubleToggleRestores ==
  \A c \in Actors :
     /\ likeRun[c].storyToggles = 2
        => /\ [story_id |-> likeRun[c].story, profile_id |-> c] \notin story_likes
           /\ ~storyViewer[c].isLiked
     /\ likeRun[c].noteToggles = 2
        => /\ [note_id |-> likeRun[c].note, profile_id |-> c] \notin note_likes
           /\ \A n \in notesData[c] : n.id = likeRun[c].note => ~n.is_liked

\* C13: impersonation is only ever in force for an admin: in every state
\* with a signed-in user, a non-null impersonatedProfile implies that this
\* user holds the admin role in user_roles.
C13_ImpersonationOnlyForAdmin ==
  \A c \in Browsers :
     (impersonatedProfile[c] # None /\ user[c] # None) => HasAdminRole(user[c])

\* C14: while impersonatedProfile is set, the effective profile is the
\* impersonated one, also after a profile re-fetch was answered.
C14_EffectiveProfileIsTarget ==
  \A c \in Browsers :
     impersonatedProfile[c] # None => profile[c] = impersonatedProfile[c]

\* C15: a step of exitImpersonation taken while impersonating clears
\* impersonatedProfile and leaves the profile of the signed-in user as the
\* effective profile.
C15_ExitRestoresRealActor ==
  [][\A c \in Browsers :
       (impersonatedProfile[c] # None /\ impersonatedProfile'[c] = None
        /\ user'[c] # None)
       => profile'[c] = user'[c]]_vars

\* C16: once loading is over, a client without a user on a route other than
\* /auth is eventually on /auth.
C16_SignedOutLeadsToAuth ==
  \A c \in Browsers :
     (~isLoading[c] /\ user[c] = None /\ pathname[c] # "/auth")
       ~> (pathname[c] = "/auth")

\* the redirect effect has just taken a signed-out client to /auth
C16_Witness ==
  \E c \in Browsers :
     redirected[c] /\ ~isLoading[c] /\ user[c] = None /\ pathname[c] = "/auth"

\* C11: a step changes nothing of a stored message but is_read, and is_read
\* only from false to true: no message disappears, and a read message stays
\* read.
C11_OnlyReadFlagMoves ==
  [][\A m \in messages :
       \/ m \in messages'
       \/ ~m.is_read /\ [m EXCEPT !.is_read = TRUE] \in messages']_vars

\* a stored message has been marked read
C11_Witness == \E m \in messages : m.is_read /\ \E e \in markedRead : e.id = m.id

\* C12: the read flag of a message is never set by a request of the client
\* its sender is signed in on.
C12_NeverMarkedBySender ==
  \A e \in markedRead : \A m \in messages : m.id = e.id => m.sender_id # e.by

\* C17: in every state, a profile whose verified_type is not NULL has
\* is_verified = true.
C17_BadgeColumnsAgree ==
  \A p \in Actors : verified_type[p] # Null => is_verified[p]

\* a badge was removed by saving 'No Badge'
C17_Witness ==
  \E p \in Actors : HasAdminRole(p) /\ verified_type[p] = Null /\ ~is_verified[p]

\* C18: a step inserts a 'like' notification only if the same step inserts
\* the like row of that actor on that story or note, and the actor is not
\* the author.
C18_NotificationOnlyOnNewLike ==
  [][\A n \in notifications' \ notifications :
       n.type = "like" =>
         /\ n.actor_id # n.profile_id
         /\ n.content_type = "story" =>
               [story_id |-> n.content_id, profile_id |-> n.actor_id]
                 \in story_likes' \ story_likes
         /\ n.content_type = "note" =>
               [note_id |-> n.content_id, profile_id |-> n.actor_id]
                 \in note_likes' \ note_likes]_vars

\* C19: once a like or save request that the backend refused has settled,
\* the card shows the values it showed before the click.
C19_RefusedRequestRollsBack ==
  \A c \in Actors :
     /\ (likeMutation[c].status = "success" /\ likeMutation[c].refused)
          => /\ localIsLiked[c] = likeMutation[c].wasLiked
             /\ localLikesCount[c] = likeMutation[c].wasCount
     /\ (saveMutation[c].status = "success" /\ saveMutation[c].refused)
          => localIsSaved[c] = saveMutation[c].wasSaved

\* C20: in every state in which no createConversationMutation is in flight,
\* each conversation row has exactly two participant rows, of two distinct
\* actors, also when the insert of the participants was refused.
C20_TwoParticipantsWhenIdle ==
  (\A c \in Actors : createConversationMutation[c].pc = "idle") =>
     \A cv \in conversations :
        LET rows == {r \in conversation_participants :
                       r.conversation_id = cv.id}
        IN  /\ Cardinality(rows) = 2
            /\ Cardinality({r.profile_id : r \in rows}) = 2

C22_FailureShowsToast ==
  [][\A c \in Actors :
        (\/ /\ sendMessageMutation[c].status = "pending"
            /\ sendMessageMutation'[c].status = "error"
         \/ /\ createConversationMutation[c].pc # "idle"
            /\ createConversationMutation'[c].pc = "idle"
            /\ createConversationMutation[c].newConv
                  \notin {r.conversation_id : r \in conversation_participants'})
        => toast'[c].n # toast[c].n]_vars

\* C23: once the effects of a render have run, the client has no channel
\* but the one of the conversation ChatArea shows (none without a ChatArea),
\* and a step that marks a message read marks a message of the conversation
\* the marking client shows in that step.
C23_NothingOfTheOldConversation ==
  /\ [](\A c \in Browsers :
          subscribedFor[c] = conversationId[c]
          => channels[c] \subseteq ChannelsOf(conversationId[c]))
  /\ [][\A m \in messages :
          (~m.is_read /\ [m EXCEPT !.is_read = TRUE] \in messages')
          => \E c \in Browsers : conversationId[c] = m.conversation_id]_vars

\* a message of conversation 1 was marked read, the client then moved to
\* conversation 2 and the effect has run
C23_Witness ==
  \E c \in Browsers :
     /\ \E m \in messages : m.conversation_id = 1 /\ m.is_read
     /\ conversationId[c] = 2
     /\ subscribedFor[c] = 2
     /\ channels[c] = {2}

\* C24: a step that inserts a message raises updated_at of the conversation
\* of that message, and a step in which a send fails changes no conversation.
C24_SendBumpsUpdatedAt ==
  [][/\ \A m \in messages' \ messages :
          \A cv \in conversations :
             cv.id = m.conversation_id
             => \E nv \in conversations' :
                   nv.id = cv.id /\ nv.updated_at > cv.updated_at
     /\ (\E c \in Actors :
           /\ sendMessageMutation[c].status = "pending"
           /\ sendMessageMutation'[c].status = "error")
        => conversations' = conversations]_vars

\* the stories of an author in the answer, and the groups the listing
\* is said to order
StoriesOf(author) ==
  {storiesBar.data[i] : i \in {j \in 1..Len(storiesBar.data) :
                                 storiesBar.data[j].profile_id = author}}

Unseen(author) == \E s \in StoriesOf(author) : s.id \notin storiesBar.viewedIds

Newest(author) == Max({s.created_at : s \in StoriesOf(author)})

\* the listing on screen was computed from the rows and views at hand
ListingCurrent ==
  /\ storiesBar.fetched
  /\ storiesBar.groupedStories =
       SortGroups(GroupByProfile(storiesBar.data, storiesBar.viewedIds, 1, <<>>), 1)

\* C25: the listing computed from the answers at hand has one group per
\* author of a served story, holding that author's stories; a group with a
\* story the viewer has not seen stands before every fully seen group; two
\* groups of the same part stand newest story first.
C25_UnseenFirstNewestFirst ==
  LET g == storiesBar.groupedStories
  IN ListingCurrent =>
       /\ {g[i].profile : i \in 1..Len(g)}
             = {storiesBar.data[i].profile_id : i \in 1..Len(storiesBar.data)}
       /\ \A i \in 1..Len(g) :
             {g[i].stories[k] : k \in 1..Len(g[i].stories)} = StoriesOf(g[i].profile)
       /\ \A i \in 1..Len(g), j \in 1..Len(g) :
             i < j =>
               /\ g[i].profile # g[j].profile
               /\ Unseen(g[j].profile) => Unseen(g[i].profile)
               /\ (Unseen(g[i].profile) = Unseen(g[j].profile))
                    => Newest(g[i].profile) >= Newest(g[j].profile)

\* three groups: an unseen one in front although its story is the oldest,
\* then two fully seen ones, the newer first
C25_Witness ==
  LET g == storiesBar.groupedStories
  IN /\ ListingCurrent
     /\ Len(g) = 3
     /\ Unseen(g[1].profile) /\ ~Unseen(g[2].profile) /\ ~Unseen(g[3].profile)
     /\ Newest(g[1].profile) < Newest(g[2].profile)
     /\ Newest(g[2].profile) > Newest(g[3].profile)

\* C26: in every state the auth context holds data of the signed-in user
\* only: isAdmin implies that a user is signed in and holds the admin role,
\* and without a signed-in user isAdmin is false and profile is null.
C26_ContextBelongsToUser ==
  \A c \in Browsers :
     /\ isAdmin[c] => (user[c] # None /\ HasAdminRole(user[c]))
     /\ user[c] = None => (~isAdmin[c] /\ profile[c] = None)

\* C27: once createStoryMutation has succeeded, the dialog is eventually
\* closed with isUploading false.
C27_SuccessClosesDialog ==
  \A c \in Actors :
     (createStoryDialog[c].status = "success")
       ~> (~createStoryDialog[c].open /\ ~createStoryDialog[c].isUploading)

\* C28: a step inserts a 'follow' notification only if the same step
\* inserts the follow row it reports, and a 'like' notification only if the
\* same step inserts the like row it reports.
C28_NotificationReportsNewRow ==
  [][\A n \in notifications' \ notifications :
       /\ n.type = "follow" =>
             [follower_id |-> n.actor_id, following_id |-> n.profile_id]
               \in follows' \ follows
       /\ (n.type = "like" /\ n.content_type = "story") =>
             [story_id |-> n.content_id, profile_id |-> n.actor_id]
               \in story_likes' \ story_likes
       /\ (n.type = "like" /\ n.content_type = "note") =>
             [note_id |-> n.content_id, profile_id |-> n.actor_id]
               \in note_likes' \ note_likes
       /\ (n.type = "like" /\ n.content_type = "post") =>
             [post_id |-> n.content_id, profile_id |-> n.actor_id]
               \in post_likes' \ post_likes]_vars

\* C29 (as claimed): while StoryViewer is open, currentIndex is an index of
\* stories, whatever the order of interval ticks and next/previous clicks.
C29_CurrentIndexInRange ==
  viewingStories.stories # 0 =>
     viewingStories.currentIndex \in 0..(viewingStories.stories - 1)

\* C30 (as claimed): when a send that was in flight succeeds and the compose
\* input no longer holds the text that was sent, the input still holds what
\* the user typed meanwhile.
C30_SuccessKeepsLaterText ==
  [][\A c \in Actors :
        (/\ sendMessageMutation[c].status = "pending"
         /\ sendMessageMutation'[c].status = "idle"
         /\ messages' # messages
         /\ message[c] # sendMessageMutation[c].message)
        => message'[c] = message[c]]_vars

====
